---- MODULE Spec2Model ----
(***************************************************************************)
(* A model of the llm-metrics-service: the HTTP handlers of the generation *)
(* endpoint, the request orchestrator LLMService.generateCompletion, the   *)
(* metrics registry LLMMetricsCollector and the store accessor             *)
(* DatabaseService.                                                        *)
(*                                                                         *)
(* Units.  Durations are whole milliseconds (the source keeps seconds as   *)
(* floats: s = ms / 1000).  Money is counted in 1e-7 USD, the unit in which *)
(* every per-token price of MODEL_PRICING is a whole number.  A throughput *)
(* (tokens per second) is the exact fraction [n, d] = n / d.  A prompt or  *)
(* a response is represented by its length in characters, the only thing   *)
(* the code reads of it.  Math.random() is a draw r / 1000, see Profiles.  *)
(***************************************************************************)
EXTENDS Integers, Sequences, FiniteSets, TLC

\* ------------------------------------------------------------------ bounds
MaxReqs == 2        \* generateCompletion invocations in one behaviour
MaxBad == 1         \* requests answered 400 in one behaviour
MaxTicks == 1       \* advances of the store's clock in one behaviour
MaxReads == 1       \* read queries answered in one behaviour
MaxRows == 2        \* rows written by direct calls of saveLLMMetrics
MaxCount == 7       \* the largest count of a demo batch
MaxSaveFailures == 2 \* store writes that fail during one demo batch

\* What chance decides in one call: the four draws of Math.random(), in
\* thousandths (time to first token, template, padding, time per token), and
\* lag, the delay in ms between the end of a wait (or of a failed save) and
\* the reading of Date.now() that follows it.
Profiles ==
    {[ttft |-> 0, template |-> 0, pad |-> 0, token |-> 0, lag |-> 0],
     [ttft |-> 999, template |-> 999, pad |-> 999, token |-> 999, lag |-> 7]}
\* hours by which the store's clock advances in one step
TickHours == {1, 30, 800}

\* --------------------------------------------------------------- the inputs
NonString == "<number>"   \* a JSON body's model that is a number, not a string
AbsentField == "<absent>" \* a field the JSON body does not carry
\* Strings that name a property every object literal inherits from
\* Object.prototype (constructor, toString, valueOf, hasOwnProperty,
\* __proto__, ...): a lookup table[name] in an object literal finds the
\* inherited value, a function or an object, which is truthy.
InheritedNames == {"constructor"}
\* The requests sent to the generation endpoint: the handler reached (via) and
\* the JSON body.  A prompt is its length; 0 stands for a missing or empty
\* (falsy) prompt.
Requests ==
    {[via |-> "chat", prompt |-> 0, model |-> AbsentField, userId |-> AbsentField],
     [via |-> "controller", prompt |-> 0, model |-> "gpt-4", userId |-> "u1"],
     [via |-> "chat", prompt |-> 25, model |-> AbsentField, userId |-> AbsentField],
     [via |-> "chat", prompt |-> 25, model |-> "gpt-4", userId |-> "u1"],
     [via |-> "controller", prompt |-> 38, model |-> "llama-2", userId |-> AbsentField],
     [via |-> "chat", prompt |-> 24, model |-> NonString, userId |-> AbsentField],
     [via |-> "chat", prompt |-> 24, model |-> "constructor", userId |-> AbsentField]}

ENDPOINT == "/api/llm/chat"
Outcomes == {"success", "error"}
NoMessage == "<none>"

\* ------------------------------------------------------- LLMService helpers
PricedModels == {"gpt-3.5-turbo", "gpt-4", "gpt-4-turbo", "gpt-4o"}

\* MODEL_PRICING, per token, in 1e-7 USD (0.0015 USD per 1K = 15e-7 per token)
PricingInput(model) ==
    CASE model = "gpt-3.5-turbo" -> 15
      [] model = "gpt-4" -> 300
      [] model = "gpt-4-turbo" -> 100
      [] model = "gpt-4o" -> 50

PricingOutput(model) ==
    CASE model = "gpt-3.5-turbo" -> 20
      [] model = "gpt-4" -> 600
      [] model = "gpt-4-turbo" -> 300
      [] model = "gpt-4o" -> 150

DefaultCost == 10000   \* 0.001 USD

\* The value of an arithmetic expression that is no finite number: NaN, or the
\* text that + makes of a function and a number.  Every duration and every
\* price of the model is at least 0, so -1 is free to stand for it.
NotANumber == 0 - 1

estimateTokens(len) == (len + 3) \div 4   \* Math.ceil(len / 4)

\* calculateCost with the input and the output price exchanged
calculateCostSwapped(model, inputTokens, outputTokens) ==
    IF model \in InheritedNames
    THEN NotANumber
    ELSE IF model \notin PricedModels
    THEN DefaultCost
    ELSE inputTokens * PricingOutput(model) + outputTokens * PricingInput(model)

\* MODEL_PRICING[model] of an inherited name is a function: it is truthy, so
\* the default is not taken, and its input and output are undefined, so both
\* products and their sum are NaN.
calculateCost(model, inputTokens, outputTokens) ==
    IF model \in InheritedNames
    THEN NotANumber
    ELSE IF model \notin PricedModels
    THEN DefaultCost
    ELSE inputTokens * PricingInput(model) + outputTokens * PricingOutput(model)

\* latencies[model] || 0.5; of an inherited name it is the inherited function
getModelBaseLatency(model) ==
    CASE model = "gpt-3.5-turbo" -> 300
      [] model = "gpt-4" -> 800
      [] model = "gpt-4-turbo" -> 500
      [] model = "gpt-4o" -> 400
      [] model \in InheritedNames -> NotANumber
      [] OTHER -> 500

Max(a, b) == IF a >= b THEN a ELSE b
Min(a, b) == IF a <= b THEN a ELSE b

\* lengths of the five template responses
TemplateLen == <<128, 108, 107, 109, 105>>

ModelNameLen(model) ==
    CASE model = "gpt-3.5-turbo" -> 13
      [] model = "gpt-4" -> 5
      [] model = "gpt-4-turbo" -> 11
      [] model = "gpt-4o" -> 6
      [] model = "llama-2" -> 7
      [] model = "constructor" -> 11

\* model.includes('gpt-4') on a string
IncludesGpt4(model) == model \in {"gpt-4", "gpt-4-turbo", "gpt-4o"}

\* generateMockResponse: the length of the response, r1 picking the template
\* and r2 the padding.  Not defined on a model that is no string: includes
\* is no function of a number and the call throws (see FirstTokenWaitDone).
generateMockResponse(model, r1, r2) ==
    LET base == TemplateLen[((r1 * 5) \div 1000) + 1]
        mult10 == IF IncludesGpt4(model) THEN 15 ELSE 10
        responseLength == (base * mult10 * (8000 + 4 * r2)) \div 100000
    IN  base + Max(0, responseLength - base) + 51 + ModelNameLen(model) + 40

\* timeToFirstToken = baseLatency + Math.random() * 0.5, in ms; a function
\* plus a number is a text
TimeToFirstToken(model, r) ==
    IF getModelBaseLatency(model) = NotANumber
    THEN NotANumber
    ELSE getModelBaseLatency(model) + (r * 500) \div 1000

\* setTimeout(resolve, ms): a delay that is NaN is taken as 1 ms
TimerDelay(ms) == IF ms = NotANumber THEN 1 ELSE ms

\* tokenGenerationTime = estimatedTokens * (0.02 + Math.random() * 0.01), in ms
TokenGenerationTime(respLen, maxTokens, r) ==
    (Min(estimateTokens(respLen), maxTokens) * (20000 + 10 * r)) \div 1000

\* NaN as a fraction
NaNRate == [n |-> 0, d |-> 0]

\* TokensPerSecond without Math.max: the divisor is the difference itself
TokensPerSecondNoFloor(completionTokens, totalDuration, timeToFirstToken) ==
    IF timeToFirstToken = NotANumber
    THEN NaNRate
    ELSE [n |-> completionTokens * 1000,
          d |-> totalDuration - timeToFirstToken]

\* completionTokens / Math.max(totalDuration - timeToFirstToken, 0.1); a
\* number minus a text is NaN, and so are Math.max of it and the quotient
TokensPerSecond(completionTokens, totalDuration, timeToFirstToken) ==
    IF timeToFirstToken = NotANumber
    THEN NaNRate
    ELSE [n |-> completionTokens * 1000,
          d |-> Max(totalDuration - timeToFirstToken, 100)]

ZeroRate == [n |-> 0, d |-> 1]

\* SuccessMetrics with the prompt's tokens left out of the total
SuccessMetricsNoPrompt(requestId, model, userId, prompt, respLen, ttft, totalDuration) ==
    LET promptTokens == estimateTokens(prompt)
        completionTokens == estimateTokens(respLen)
    IN  [requestId |-> requestId,
         model |-> model,
         promptTokens |-> promptTokens,
         completionTokens |-> completionTokens,
         totalTokens |-> completionTokens,
         timeToFirstToken |-> ttft,
         tokensPerSecond |-> TokensPerSecond(completionTokens, totalDuration, ttft),
         totalDuration |-> totalDuration,
         costUsd |-> calculateCost(model, promptTokens, completionTokens),
         status |-> "success",
         errorMessage |-> NoMessage,
         userId |-> userId,
         endpoint |-> ENDPOINT]

\* the LLMMetrics object of the try block
SuccessMetrics(requestId, model, userId, prompt, respLen, ttft, totalDuration) ==
    LET promptTokens == estimateTokens(prompt)
        completionTokens == estimateTokens(respLen)
    IN  [requestId |-> requestId,
         model |-> model,
         promptTokens |-> promptTokens,
         completionTokens |-> completionTokens,
         totalTokens |-> promptTokens + completionTokens,
         timeToFirstToken |-> ttft,
         tokensPerSecond |-> TokensPerSecond(completionTokens, totalDuration, ttft),
         totalDuration |-> totalDuration,
         costUsd |-> calculateCost(model, promptTokens, completionTokens),
         status |-> "success",
         errorMessage |-> NoMessage,
         userId |-> userId,
         endpoint |-> ENDPOINT]

\* ErrorMetrics that bills the prompt instead of writing a zero cost
ErrorMetricsBilled(requestId, model, userId, prompt, totalDuration, errorMessage) ==
    [requestId |-> requestId,
     model |-> model,
     promptTokens |-> estimateTokens(prompt),
     completionTokens |-> 0,
     totalTokens |-> estimateTokens(prompt),
     timeToFirstToken |-> 0,
     tokensPerSecond |-> ZeroRate,
     totalDuration |-> totalDuration,
     costUsd |-> calculateCost(model, estimateTokens(prompt), 0),
     status |-> "error",
     errorMessage |-> errorMessage,
     userId |-> userId,
     endpoint |-> ENDPOINT]

\* the LLMMetrics object of the catch block
ErrorMetrics(requestId, model, userId, prompt, totalDuration, errorMessage) ==
    [requestId |-> requestId,
     model |-> model,
     promptTokens |-> estimateTokens(prompt),
     completionTokens |-> 0,
     totalTokens |-> estimateTokens(prompt),
     timeToFirstToken |-> 0,
     tokensPerSecond |-> ZeroRate,
     totalDuration |-> totalDuration,
     costUsd |-> 0,
     status |-> "error",
     errorMessage |-> errorMessage,
     userId |-> userId,
     endpoint |-> ENDPOINT]

\* the LLMCompletionResponse returned for a metrics object; the catch block
\* writes the zeroes again as literals
SuccessResponse(m, respLen) ==
    [requestId |-> m.requestId,
     response |-> respLen,
     promptTokens |-> m.promptTokens,
     completionTokens |-> m.completionTokens,
     totalTokens |-> m.totalTokens,
     timeToFirstToken |-> m.timeToFirstToken,
     tokensPerSecond |-> m.tokensPerSecond,
     totalDuration |-> m.totalDuration,
     cost |-> m.costUsd,
     model |-> m.model,
     status |-> "success",
     errorMessage |-> NoMessage]

ErrorResponse(m) ==
    [requestId |-> m.requestId,
     response |-> 0,
     promptTokens |-> m.promptTokens,
     completionTokens |-> 0,
     totalTokens |-> m.totalTokens,
     timeToFirstToken |-> 0,
     tokensPerSecond |-> ZeroRate,
     totalDuration |-> m.totalDuration,
     cost |-> 0,
     model |-> m.model,
     status |-> "error",
     errorMessage |-> m.errorMessage]

\* ------------------------------------------------------ LLMMetricsCollector
\* An instrument maps a label tuple to its value; a label never touched reads 0.
Get(f, k) == IF k \in DOMAIN f THEN f[k] ELSE 0

Add(f, k, v) == IF k \in DOMAIN f THEN [f EXCEPT ![k] = @ + v] ELSE f @@ (k :> v)

\* a histogram keeps, per label tuple, the values observed in order
Observed(h, k) == IF k \in DOMAIN h THEN h[k] ELSE <<>>

Observe(h, k, v) ==
    IF k \in DOMAIN h THEN [h EXCEPT ![k] = Append(@, v)] ELSE h @@ (k :> <<v>>)

EmptyMap == [k \in {} |-> 0]

NewRegistry ==
    [requestsTotal |-> EmptyMap,
     responseTime |-> EmptyMap,
     timeToFirstToken |-> EmptyMap,
     tokensPerSecond |-> EmptyMap,
     totalTokens |-> EmptyMap,
     costTotal |-> EmptyMap,
     activeRequests |-> EmptyMap]

\* Histogram.observe and Counter.inc of prom-client throw a TypeError on a
\* value that is no finite number.
recordMetricsThrows(metrics) ==
    /\ metrics.status = "success"
    /\ \/ metrics.totalDuration = NotANumber
       \/ metrics.timeToFirstToken = NotANumber
       \/ metrics.tokensPerSecond = NaNRate
       \/ metrics.totalTokens = NotANumber
       \/ metrics.costUsd = NotANumber

\* Lines 355-359 on a registry reg: the five instruments one after the other;
\* the first that throws ends the method, and what the ones before it have
\* recorded stays recorded.
ObserveSuccess(reg, metrics) ==
    LET labels == <<metrics.model, metrics.endpoint>>
        r1 == [reg EXCEPT !.responseTime = Observe(@, labels, metrics.totalDuration)]
        r2 == [r1 EXCEPT !.timeToFirstToken =
                                Observe(@, labels, metrics.timeToFirstToken)]
        r3 == [r2 EXCEPT !.tokensPerSecond =
                                Observe(@, labels, metrics.tokensPerSecond)]
        r4 == [r3 EXCEPT !.totalTokens = Observe(@, labels, metrics.totalTokens)]
        r5 == [r4 EXCEPT !.costTotal = Add(@, labels, metrics.costUsd)]
    IN  IF metrics.totalDuration = NotANumber THEN reg
        ELSE IF metrics.timeToFirstToken = NotANumber THEN r1
        ELSE IF metrics.tokensPerSecond = NaNRate THEN r2
        ELSE IF metrics.totalTokens = NotANumber THEN r3
        ELSE IF metrics.costUsd = NotANumber THEN r4
        ELSE r5

\* recordMetrics with the counter's increment inside the test of the status
recordMetricsSuccessOnly(reg, metrics) ==
    LET requestLabels ==
            <<metrics.model, metrics.status, metrics.userId, metrics.endpoint>>
    IN  IF metrics.status = "success"
        THEN ObserveSuccess([reg EXCEPT !.requestsTotal = Add(@, requestLabels, 1)],
                            metrics)
        ELSE reg

\* the registry after recordMetrics(metrics), whether it returned or threw
recordMetrics(reg, metrics) ==
    LET requestLabels ==
            <<metrics.model, metrics.status, metrics.userId, metrics.endpoint>>
        counted == [reg EXCEPT !.requestsTotal = Add(@, requestLabels, 1)]
    IN  IF metrics.status = "success"
        THEN ObserveSuccess(counted, metrics)
        ELSE counted

\* incrementActiveRequests that raises the gauge twice
incrementActiveRequestsTwice(reg, model, endpoint) ==
    [reg EXCEPT !.activeRequests = Add(@, <<model, endpoint>>, 2)]

incrementActiveRequests(reg, model, endpoint) ==
    [reg EXCEPT !.activeRequests = Add(@, <<model, endpoint>>, 1)]

decrementActiveRequests(reg, model, endpoint) ==
    [reg EXCEPT !.activeRequests = Add(@, <<model, endpoint>>, -1)]

\* ---------------------------------------------------------- DatabaseService
NullValue == "<null>"

\* the row INSERTed by saveLLMMetrics; time is the table's default, NOW()
InsertedRow(metrics, time) ==
    [request_id |-> metrics.requestId,
     time |-> time,
     model |-> metrics.model,
     prompt_tokens |-> metrics.promptTokens,
     completion_tokens |-> metrics.completionTokens,
     total_tokens |-> metrics.totalTokens,
     time_to_first_token |-> metrics.timeToFirstToken,
     tokens_per_second |-> metrics.tokensPerSecond,
     total_duration |-> metrics.totalDuration,
     cost_usd |-> metrics.costUsd,
     status |-> metrics.status,
     error_message |->
        IF metrics.errorMessage = NoMessage THEN NullValue ELSE metrics.errorMessage,
     user_id |-> metrics.userId,
     endpoint |-> metrics.endpoint]

\* saveLLMMetrics that writes the row with a cost of 0
saveLLMMetricsUncosted(rs, metrics, time) ==
    Append(rs, [InsertedRow(metrics, time) EXCEPT !.cost_usd = 0])

\* saveLLMMetrics resolving on the table rs at the store's time
saveLLMMetrics(rs, metrics, time) == Append(rs, InsertedRow(metrics, time))

\* the range tokens sent with a read query
TimeRanges == {"1h", "6h", "12h", "24h", "7d", "30d", "2w", "constructor"}

\* what the template literal makes of an inherited function
FunctionText == "function Object() { [native code] }"

\* parseTimeRange: timeMap[timeRange] || '1 hour'
parseTimeRange(timeRange) ==
    CASE timeRange = "1h" -> "1 hour"
      [] timeRange = "6h" -> "6 hours"
      [] timeRange = "12h" -> "12 hours"
      [] timeRange = "24h" -> "1 day"
      [] timeRange = "7d" -> "7 days"
      [] timeRange = "30d" -> "30 days"
      [] timeRange \in InheritedNames -> FunctionText
      [] OTHER -> "1 hour"

\* the texts the store reads as an interval, and their length in hours
IntervalLiterals == {"1 hour", "6 hours", "12 hours", "1 day", "7 days", "30 days"}

IntervalHours(literal) ==
    CASE literal = "1 hour" -> 1
      [] literal = "6 hours" -> 6
      [] literal = "12 hours" -> 12
      [] literal = "1 day" -> 24
      [] literal = "7 days" -> 168
      [] literal = "30 days" -> 720

RECURSIVE GCD(_, _)
GCD(a, b) == IF b = 0 THEN a ELSE GCD(b, a % b)

\* fractions n / d with n >= 0 and d > 0, kept in lowest terms
Norm(q) ==
    IF q.n = 0 THEN [n |-> 0, d |-> 1]
    ELSE [n |-> q.n \div GCD(q.n, q.d), d |-> q.d \div GCD(q.n, q.d)]

RatAdd(a, b) == Norm([n |-> a.n * b.d + b.n * a.d, d |-> a.d * b.d])
Rat(k) == [n |-> k, d |-> 1]

\* the value of column col of row r, as a fraction
Column(r, col) ==
    CASE col = "time_to_first_token" -> Rat(r.time_to_first_token)
      [] col = "tokens_per_second" -> Norm(r.tokens_per_second)
      [] col = "total_duration" -> Rat(r.total_duration)
      [] col = "cost_usd" -> Rat(r.cost_usd)
      [] col = "total_tokens" -> Rat(r.total_tokens)

RECURSIVE SumOver(_, _, _)
\* SUM of column col over the rows rs[i], i in idx
SumOver(rs, idx, col) ==
    IF idx = {} THEN Rat(0)
    ELSE LET i == CHOOSE j \in idx : TRUE
         IN  RatAdd(Column(rs[i], col), SumOver(rs, idx \ {i}, col))

\* the rows the WHERE clause of the summary query keeps (indices into rs)
SummaryWindow(rs, nowH, timeRange, model) ==
    {i \in 1..Len(rs) :
        /\ rs[i].time >= nowH - IntervalHours(parseTimeRange(timeRange))
        /\ (model # AbsentField => rs[i].model = model)}

\* AVG over the selected rows: NULL over no row, which parseFloat(..) || 0
\* turns into 0
AvgOrZero(rs, idx, col) ==
    IF idx = {} THEN Rat(0)
    ELSE LET s == SumOver(rs, idx, col)
         IN  Norm([n |-> s.n, d |-> s.d * Cardinality(idx)])

NoSummary ==
    [totalRequests |-> 0, successRate |-> Rat(0), avgTimeToFirstToken |-> Rat(0),
     avgTokensPerSecond |-> Rat(0), avgTotalDuration |-> Rat(0),
     totalCost |-> Rat(0), avgTokensPerRequest |-> Rat(0), errorCount |-> 0]

\* The outcome of a read query that the store did not answer.  cause: "pool"
\* (no connection, timeout), "invalid interval" (the text after INTERVAL is
\* no interval) or "division by zero".
FailedRead(kind, cause, matched, rs, nowH, timeRange, model, groupBy) ==
    [kind |-> kind, failed |-> TRUE, cause |-> cause, matched |-> matched,
     timeRange |-> timeRange, model |-> model, groupBy |-> groupBy,
     interval |-> parseTimeRange(timeRange), rows |-> Len(rs), at |-> nowH,
     value |-> NoSummary, entries |-> <<>>]

\* getLLMMetricsSummary; poolFails: the pool cannot run the query.  When the
\* query does run, success_rate is COUNT(..)::float / COUNT(*)::float: over
\* no row the store divides zero by zero and raises "division by zero", so
\* the query is rejected and the method rethrows; the || 0 fallbacks are
\* never reached then.  The outcome carries, besides the summary (value), the
\* arguments, the interval used, the number of rows of the table (rows) and
\* the store's time (at) when the query ran.
getLLMMetricsSummary(rs, nowH, timeRange, model, poolFails) ==
    IF poolFails
    THEN FailedRead("summary", "pool", 0, rs, nowH, timeRange, model, AbsentField)
    ELSE IF parseTimeRange(timeRange) \notin IntervalLiterals
    THEN FailedRead("summary", "invalid interval", 0, rs, nowH, timeRange, model,
                    AbsentField)
    ELSE LET idx == SummaryWindow(rs, nowH, timeRange, model)
             ok == {i \in idx : rs[i].status = "success"}
             err == {i \in idx : rs[i].status = "error"}
         IN  IF idx = {}
             THEN FailedRead("summary", "division by zero", 0, rs, nowH, timeRange,
                             model, AbsentField)
             ELSE [kind |-> "summary", failed |-> FALSE, cause |-> "none",
                   matched |-> Cardinality(idx),
                   timeRange |-> timeRange, model |-> model, groupBy |-> AbsentField,
                   interval |-> parseTimeRange(timeRange),
                   rows |-> Len(rs), at |-> nowH,
                   value |->
                     [totalRequests |-> Cardinality(idx),
                      successRate |->
                            Norm([n |-> Cardinality(ok), d |-> Cardinality(idx)]),
                      avgTimeToFirstToken |-> AvgOrZero(rs, ok, "time_to_first_token"),
                      avgTokensPerSecond |-> AvgOrZero(rs, ok, "tokens_per_second"),
                      avgTotalDuration |-> AvgOrZero(rs, ok, "total_duration"),
                      totalCost |-> SumOver(rs, ok, "cost_usd"),
                      avgTokensPerRequest |-> AvgOrZero(rs, ok, "total_tokens"),
                      errorCount |-> Cardinality(err)],
                   entries |-> <<>>]

\* time_bucket(bucketInterval, time): the start of the hour or of the day
\* (a day is 24 hours from hour 0) the time lies in
TimeBucket(groupBy, time) == IF groupBy = "hour" THEN time ELSE (time \div 24) * 24

\* the place of a model's name in the order of the store's text comparison
ModelRank(model) ==
    CASE model = NonString -> 0
      [] model = "constructor" -> 1
      [] model = "gpt-3.5-turbo" -> 2
      [] model = "gpt-4" -> 3
      [] model = "gpt-4-turbo" -> 4
      [] model = "gpt-4o" -> 5
      [] model = "llama-2" -> 6

\* ORDER BY timestamp DESC, model: group g comes no later than group h
ComesFirst(g, h) ==
    \/ g[1] > h[1]
    \/ g[1] = h[1] /\ ModelRank(g[2]) <= ModelRank(h[2])

RECURSIVE OrderGroups(_)
OrderGroups(groups) ==
    IF groups = {} THEN <<>>
    ELSE LET g == CHOOSE x \in groups : \A y \in groups : ComesFirst(x, y)
         IN  <<g>> \o OrderGroups(groups \ {g})

\* the rows the WHERE clause of the cost query keeps
CostWindow(rs, nowH, timeRange) ==
    {i \in 1..Len(rs) :
        /\ rs[i].time >= nowH - IntervalHours(parseTimeRange(timeRange))
        /\ rs[i].status = "success"}

\* getLLMCostBreakdown: one entry per group of GROUP BY timestamp, model
getLLMCostBreakdown(rs, nowH, timeRange, groupBy, poolFails) ==
    IF poolFails
    THEN FailedRead("costs", "pool", 0, rs, nowH, timeRange, AbsentField, groupBy)
    ELSE IF parseTimeRange(timeRange) \notin IntervalLiterals
    THEN FailedRead("costs", "invalid interval", 0, rs, nowH, timeRange, AbsentField,
                    groupBy)
    ELSE LET idx == CostWindow(rs, nowH, timeRange)
             groups == {<<TimeBucket(groupBy, rs[i].time), rs[i].model>> : i \in idx}
             ordered == OrderGroups(groups)
             members(g) == {i \in idx : /\ TimeBucket(groupBy, rs[i].time) = g[1]
                                        /\ rs[i].model = g[2]}
         IN  [kind |-> "costs", failed |-> FALSE, cause |-> "none",
              matched |-> Cardinality(idx),
              timeRange |-> timeRange, model |-> AbsentField, groupBy |-> groupBy,
              interval |-> parseTimeRange(timeRange),
              rows |-> Len(rs), at |-> nowH,
              value |-> NoSummary,
              entries |->
                [k \in 1..Len(ordered) |->
                    [timestamp |-> ordered[k][1],
                     model |-> ordered[k][2],
                     totalCost |-> SumOver(rs, members(ordered[k]), "cost_usd"),
                     requestCount |-> Cardinality(members(ordered[k])),
                     avgCostPerRequest |->
                        AvgOrZero(rs, members(ordered[k]), "cost_usd")]]]

\* -------------------------------------------------------------- the state
VARIABLES
    calls,        \* the invocations of generateCompletion, in order of start
    registry,     \* the instruments of LLMMetricsCollector
    rows,         \* the rows of metrics.llm_metrics, in order of insertion
    now,          \* the store's clock NOW(), in hours
    ticks,        \* how often the clock has advanced
    answered400,  \* how many requests were answered 400
    lastRead,     \* the outcome of the last read query
    reads,        \* how many read queries were answered
    demo,         \* the demo batch: its handler and the loop of generateDemoMetrics
    probe,        \* a helper function's arguments and, once applied, its result
    http,         \* the read request at the HTTP layer and its response
    proc,         \* the process: how far App.start has come, and its exit
    processor,    \* the MetricsBatchProcessor and the batch saves it awaits
    consumer      \* the RabbitMQ consumer: the queue, its deliveries, the table

vars == <<calls, registry, rows, now, ticks, answered400, lastRead, reads,
          demo, probe, http, proc, processor, consumer>>

NoRead ==
    [kind |-> "none", failed |-> FALSE, cause |-> "none", matched |-> 0,
     timeRange |-> "1h", model |-> AbsentField, groupBy |-> AbsentField,
     interval |-> "1 hour", rows |-> 0, at |-> 0,
     value |-> NoSummary, entries |-> <<>>]

\* demo: the demo batch (the handler of /api/demo/generate-metrics and
\* generateDemoMetrics): where it stands (pc), the body's count and
\* includeErrors, the loop index i, the number in calls of the invocation it
\* awaits, the results collected and the response sent.
NoDemo ==
    [pc |-> "idle", count |-> 0, includeErrors |-> FALSE, i |-> 0, call |-> 0,
     results |-> <<>>, generated |-> 0, preview |-> <<>>]
NoProbe == [fn |-> "none", name |-> AbsentField, x |-> 0, y |-> 0, z |-> 0, out |-> 0]

\* the four parts below before anything has happened to them; their fields are
\* described where their steps are defined
GenericError == "Internal server error"
NoBody == [error |-> "none", summary |-> NoSummary, costs |-> <<>>]

NoHttp ==
    [pc |-> "idle", route |-> "none", queries |-> 0, status |-> 0,
     body |-> NoBody, gets |-> 0, failures |-> 0]

NoProc ==
    [pc |-> "created", store |-> "unknown", listening |-> FALSE,
     signalled |-> FALSE, exitCode |-> 0]

NoProcessor ==
    [pc |-> "none", batchSize |-> 0, metricsBuffer |-> <<>>, lastFlush |-> 0,
     flushTimer |-> FALSE, clock |-> 0, added |-> 0, pending |-> <<>>,
     saved |-> <<>>]

NoConsumer == [queue |-> <<>>, deliveries |-> <<>>, table |-> <<>>, published |-> 0]

Init ==
    /\ calls = <<>>
    /\ registry = NewRegistry
    /\ rows = <<>>
    /\ now = 0
    /\ ticks = 0
    /\ answered400 = 0
    /\ lastRead = NoRead
    /\ reads = 0
    /\ demo = NoDemo
    /\ probe = NoProbe
    /\ http = NoHttp
    /\ proc = NoProc
    /\ processor = NoProcessor
    /\ consumer = NoConsumer

InFlight(c) == c.pc \in {"ttftWait", "genWait", "saveSuccess", "saveError"}

\* ------------------------------------------------------ generateCompletion
\* StartCall with a request id that is the number of the calls in flight
StartCallReusedId(via, prompt, model, userId, maxTokens, profile) ==
    /\ calls' = Append(calls,
            [requestId |-> 1 + Cardinality({i \in 1..Len(calls) :
                                                InFlight(calls[i])}),
             via |-> via,
             prompt |-> prompt,
             model |-> model,
             userId |-> userId,
             maxTokens |-> maxTokens,
             pc |-> "ttftWait",
             profile |-> profile,
             ttft |-> TimeToFirstToken(model, profile.ttft),
             respLen |-> 0,
             elapsed |-> 0,
             simulated |-> FALSE,
             recorded |-> <<>>,
             aborted |-> <<>>,
             saveAttempts |-> 0,
             saveFailures |-> 0,
             result |-> <<>>,
             http |-> 0])
    /\ registry' = incrementActiveRequests(registry, model, ENDPOINT)

\* Lines 59-64 and the start of simulateLLMCall (194-198): the request id,
\* the gauge, the draw of timeToFirstToken, then the first wait.  uuidv4()
\* returns a value it has not returned before: the number of the invocation.
StartCall(via, prompt, model, userId, maxTokens, profile) ==
    /\ calls' = Append(calls,
            [requestId |-> Len(calls) + 1,
             via |-> via,
             prompt |-> prompt,
             model |-> model,
             userId |-> userId,
             maxTokens |-> maxTokens,
             pc |-> "ttftWait",
             profile |-> profile,
             ttft |-> TimeToFirstToken(model, profile.ttft),
             respLen |-> 0,
             elapsed |-> 0,
             simulated |-> FALSE,
             recorded |-> <<>>,
             aborted |-> <<>>,
             saveAttempts |-> 0,
             saveFailures |-> 0,
             result |-> <<>>,
             http |-> 0])
    /\ registry' = incrementActiveRequests(registry, model, ENDPOINT)

\* The catch block up to its await (134-157): the error outcome is built from
\* the time elapsed so far, recorded, and its save is started.  reg is the
\* registry as the try block left it and aborted the outcomes whose recording
\* threw there.
Catch(i, elapsed, errorMessage, failedSaves, reg, aborted) ==
    LET c == calls[i]
        metrics == ErrorMetrics(c.requestId, c.model, c.userId, c.prompt,
                                elapsed, errorMessage)
    IN  /\ calls' = [calls EXCEPT ![i].pc = "saveError",
                                  ![i].saveFailures = @ + failedSaves,
                                  ![i].elapsed = elapsed,
                                  ![i].simulated = @ \/ c.pc = "genWait",
                                  ![i].recorded = Append(@, metrics),
                                  ![i].aborted = @ \o aborted,
                                  ![i].saveAttempts = @ + 1]
        /\ registry' = recordMetrics(reg, metrics)

\* Finally with the decrement after the return instead of in a finally block:
\* a rejected call leaves without it
FinallyOnReturn(i, pc, result, reg) ==
    /\ calls' = [calls EXCEPT ![i].pc = pc,
                              ![i].saveFailures =
                                    IF pc = "rejected" THEN @ + 1 ELSE @,
                              ![i].result = result,
                              ![i].http = IF pc = "returned" THEN 200 ELSE 500]
    /\ registry' = IF pc = "returned"
                   THEN decrementActiveRequests(reg, calls[i].model, ENDPOINT)
                   ELSE reg

\* The finally block (181-184), with the answer of the HTTP handler that
\* awaited the call: res.json(result) or the handler's catch, 500.
Finally(i, pc, result, reg) ==
    /\ calls' = [calls EXCEPT ![i].pc = pc,
                              ![i].saveFailures =
                                    IF pc = "rejected" THEN @ + 1 ELSE @,
                              ![i].result = result,
                              ![i].http = IF pc = "returned" THEN 200 ELSE 500]
    /\ registry' = decrementActiveRequests(reg, calls[i].model, ENDPOINT)

\* The first wait of simulateLLMCall is over (198-205): the response is
\* generated and the second wait starts; on a model that is no string,
\* model.includes throws and the catch block runs.
FirstTokenWaitDone(i) ==
    /\ calls[i].pc = "ttftWait"
    /\ UNCHANGED <<rows, now, ticks, answered400, lastRead, reads, demo, probe, http, proc, processor, consumer>>
    /\ \/ /\ calls[i].model = NonString
          /\ Catch(i, calls[i].ttft + calls[i].profile.lag,
                   "model.includes is not a function", 0, registry, <<>>)
       \/ /\ calls[i].model # NonString
          /\ LET p == calls[i].profile
                 respLen == generateMockResponse(calls[i].model, p.template, p.pad)
             IN  calls' = [calls EXCEPT
                     ![i].pc = "genWait",
                     ![i].respLen = respLen,
                     ![i].elapsed = TimerDelay(calls[i].ttft)
                         + TokenGenerationTime(respLen, calls[i].maxTokens, p.token)]
          /\ UNCHANGED registry

\* The second wait is over (82-109): the success outcome is built, recorded
\* and its save is started.  When recordMetrics throws on it, the catch block
\* runs at once, on the registry as the throw left it.
GenWaitDone(i) ==
    /\ calls[i].pc = "genWait"
    /\  LET c == calls[i]
            totalDuration == c.elapsed + c.profile.lag
            metrics == SuccessMetrics(c.requestId, c.model, c.userId, c.prompt,
                                      c.respLen, c.ttft, totalDuration)
        IN  IF recordMetricsThrows(metrics)
            THEN Catch(i, totalDuration, "Value is not a valid number", 0,
                       recordMetrics(registry, metrics), <<metrics>>)
            ELSE /\ calls' = [calls EXCEPT ![i].pc = "saveSuccess",
                                           ![i].elapsed = totalDuration,
                                           ![i].simulated = TRUE,
                                           ![i].recorded = Append(@, metrics),
                                           ![i].saveAttempts = @ + 1]
                 /\ registry' = recordMetrics(registry, metrics)
    /\ UNCHANGED <<rows, now, ticks, answered400, lastRead, reads, demo, probe, http, proc, processor, consumer>>

LastRecorded(c) == c.recorded[Len(c.recorded)]

\* saveLLMMetrics resolves: the row is in the table, the outcome is returned.
SaveResolved(i) ==
    /\ calls[i].pc \in {"saveSuccess", "saveError"}
    /\ rows' = saveLLMMetrics(rows, LastRecorded(calls[i]), now)
    /\ Finally(i, "returned",
               <<IF calls[i].pc = "saveSuccess"
                 THEN SuccessResponse(LastRecorded(calls[i]), calls[i].respLen)
                 ELSE ErrorResponse(LastRecorded(calls[i]))>>,
               registry)
    /\ UNCHANGED <<now, ticks, answered400, lastRead, reads, demo, probe, http, proc, processor, consumer>>

\* SaveRejected with the save outside the try block: every rejection leaves
\* generateCompletion
SaveRejectedEscapes(i) ==
    /\ calls[i].pc \in {"saveSuccess", "saveError"}
    /\ UNCHANGED <<rows, now, ticks, answered400, lastRead, reads, demo, probe, http, proc, processor, consumer>>
    /\ Finally(i, "rejected", <<>>, registry)

\* saveLLMMetrics rejects (87-90 of DatabaseService): no row.  In the try
\* block the rejection is caught like any other error; in the catch block
\* it leaves generateCompletion.
SaveRejected(i) ==
    /\ calls[i].pc \in {"saveSuccess", "saveError"}
    /\ UNCHANGED <<rows, now, ticks, answered400, lastRead, reads, demo, probe, http, proc, processor, consumer>>
    /\ \/ /\ calls[i].pc = "saveSuccess"
          /\ Catch(i, calls[i].elapsed + calls[i].profile.lag, "store write failed", 1,
                   registry, <<>>)
       \/ /\ calls[i].pc = "saveError"
          /\ Finally(i, "rejected", <<>>, registry)

\* ------------------------------------------------------- the HTTP handlers
\* The defaults of the destructured body: POST /api/llm/chat of index.ts
\* (it passes no maxTokens, so generateCompletion's own default applies) and
\* LLMController.generateResponse.
DefaultModel == "gpt-3.5-turbo"
DefaultUser(via) == IF via = "chat" THEN "anonymous" ELSE "demo-user"
DefaultMaxTokens(via) == IF via = "chat" THEN 1000 ELSE 500

OrDefault(field, default) == IF field = AbsentField THEN default ELSE field

\* Reject400 with the test of the prompt after the gauge's increment
Reject400Late ==
    /\ answered400' = answered400 + 1
    /\ registry' = incrementActiveRequests(registry, DefaultModel, ENDPOINT)
    /\ UNCHANGED <<calls, rows, now, ticks, lastRead, reads, demo, probe, http, proc, processor, consumer>>

\* if (!prompt) return res.status(400)...: nothing else happens
Reject400 ==
    /\ answered400' = answered400 + 1
    /\ UNCHANGED <<calls, registry, rows, now, ticks, lastRead, reads, demo, probe, http, proc, processor, consumer>>

HandleGenerate(req, profile) ==
    \/ /\ req.prompt = 0
       /\ answered400 < MaxBad
       /\ Reject400
    \/ /\ req.prompt # 0
       /\ Len(calls) < MaxReqs
       /\ StartCall(req.via, req.prompt, OrDefault(req.model, DefaultModel),
                    OrDefault(req.userId, DefaultUser(req.via)),
                    DefaultMaxTokens(req.via), profile)
       /\ UNCHANGED <<rows, now, ticks, answered400, lastRead, reads, demo, probe, http, proc, processor, consumer>>

\* ----------------------------------------------------------- the read path
ReadModels == {AbsentField, "gpt-4"}

\* SummaryQuery with a request counter of the registry raised by the read
SummaryQueryCounted(timeRange, model, poolFails) ==
    /\ lastRead' = getLLMMetricsSummary(rows, now, timeRange, model, poolFails)
    /\ registry' = [registry EXCEPT !.requestsTotal =
                        Add(@, <<model, "read", "anonymous", ENDPOINT>>, 1)]
    /\ UNCHANGED <<calls, rows, now, ticks, answered400, demo, probe, http, proc, processor, consumer>>

\* A call of getLLMMetricsSummary: the query runs against the rows of this
\* moment and the caller holds its outcome.
SummaryQuery(timeRange, model, poolFails) ==
    /\ lastRead' = getLLMMetricsSummary(rows, now, timeRange, model, poolFails)
    /\ UNCHANGED <<calls, registry, rows, now, ticks, answered400, demo, probe, http, proc, processor, consumer>>

\* A call of getLLMCostBreakdown.
CostQuery(timeRange, groupBy, poolFails) ==
    /\ lastRead' = getLLMCostBreakdown(rows, now, timeRange, groupBy, poolFails)
    /\ UNCHANGED <<calls, registry, rows, now, ticks, answered400, demo, probe, http, proc, processor, consumer>>

\* GET /api/metrics/llm/summary: lastRead holds the outcome of the query
\* until the handler has answered.
Summarize(timeRange, model, poolFails) ==
    /\ lastRead.kind = "none"
    /\ reads < MaxReads
    /\ reads' = reads + 1
    /\ SummaryQuery(timeRange, model, poolFails)

\* the handler of the read has answered
ReadAnswered ==
    /\ lastRead.kind # "none"
    /\ lastRead' = NoRead
    /\ UNCHANGED <<calls, registry, rows, now, ticks, answered400, reads, demo, probe, http, proc, processor, consumer>>

\* The store's clock advances.  A call lasts seconds and a step of the clock
\* is an hour or more, so the clock steps between calls.
Advance(h, limit) ==
    /\ ticks < limit
    /\ \A i \in 1..Len(calls) : ~InFlight(calls[i])
    /\ now' = now + h
    /\ ticks' = ticks + 1
    /\ UNCHANGED <<calls, registry, rows, answered400, lastRead, reads, demo, probe, http, proc, processor, consumer>>

Tick(h) == Advance(h, MaxTicks)

\* No read is waiting for its answer: the answer follows the query at once,
\* so every other step is taken with no read pending.
Idle == lastRead.kind = "none"

Next ==
    \/ /\ Idle
       /\ \E req \in Requests, profile \in Profiles : HandleGenerate(req, profile)
    \/ /\ Idle
       /\ \E i \in 1..Len(calls) : FirstTokenWaitDone(i)
    \/ /\ Idle
       /\ \E i \in 1..Len(calls) : GenWaitDone(i)
    \/ /\ Idle
       /\ \E i \in 1..Len(calls) : SaveResolved(i)
    \/ /\ Idle
       /\ \E i \in 1..Len(calls) : SaveRejected(i)
    \/ \E t \in TimeRanges, m \in ReadModels, f \in BOOLEAN : Summarize(t, m, f)
    \/ ReadAnswered
    \/ /\ Idle
       /\ \E h \in TickHours : Tick(h)

Spec == Init /\ [][Next]_vars

\* The generation path alone: the handlers and the steps of the calls, with
\* the store's clock at rest and no read query.
NextCalls ==
    \/ \E req \in Requests, profile \in Profiles : HandleGenerate(req, profile)
    \/ \E i \in 1..Len(calls) : FirstTokenWaitDone(i)
    \/ \E i \in 1..Len(calls) : GenWaitDone(i)
    \/ \E i \in 1..Len(calls) : SaveResolved(i)
    \/ \E i \in 1..Len(calls) : SaveRejected(i)

SpecCalls == Init /\ [][NextCalls]_vars

\* ------------------------------------------------- the store accessor alone
\* The outcomes handed to saveLLMMetrics: outcomes as generateCompletion
\* builds them on a prompt of 25 characters, without a wait between the end of
\* the simulation and the reading of the clock.
SavedOutcomes ==
    {<<"gpt-4", "success", 0>>, <<"gpt-4", "success", 999>>,
     <<"gpt-3.5-turbo", "success", 0>>, <<"gpt-4", "error", 0>>}

OutcomeOf(requestId, model, status, profile) ==
    LET respLen == generateMockResponse(model, profile.template, profile.pad)
        ttft == TimeToFirstToken(model, profile.ttft)
        totalDuration == ttft + TokenGenerationTime(respLen, 1000, profile.token)
    IN  IF status = "success"
        THEN SuccessMetrics(requestId, model, "anonymous", 25, respLen, ttft,
                            totalDuration)
        ELSE ErrorMetrics(requestId, model, "anonymous", 25, totalDuration,
                          "store write failed")

\* saveLLMMetrics is called and resolves: the table has one row more
SaveOutcome(model, status, profile) ==
    /\ Len(rows) < MaxRows
    /\ rows' = saveLLMMetrics(rows, OutcomeOf(Len(rows) + 1, model, status, profile),
                              now)
    /\ UNCHANGED <<calls, registry, now, ticks, answered400, lastRead, reads,
                   demo, probe, http, proc, processor, consumer>>

ReadRanges == {"1h", "7d", "constructor"}
GroupBys == {"hour", "day"}

\* DatabaseService on its own: writes, the two read queries and the clock.
\* The behaviours explored write first and read afterwards: between two reads
\* the clock may step, the table stays as it is. The clock steps once more
\* than in Next, so that it can step between two writes and between two reads.
NextReads ==
    \/ /\ Idle
       /\ \E o \in SavedOutcomes : \E profile \in Profiles :
            profile.ttft = o[3] /\ SaveOutcome(o[1], o[2], profile)
    \/ \E t \in ReadRanges, m \in ReadModels, f \in BOOLEAN :
            SummaryQuery(t, m, f) /\ UNCHANGED reads
    \/ \E t \in ReadRanges, g \in GroupBys, f \in BOOLEAN :
            CostQuery(t, g, f) /\ UNCHANGED reads
    \/ \E h \in TickHours : Advance(h, MaxTicks + 1)

SpecReads == Init /\ [][NextReads]_vars

\* ------------------------------------------------------- the demo batch
\* The counts a body carries, and what Math.random() picks for one request of
\* the batch: a model of models, a prompt of samplePrompts (its length), a
\* user of demo-user-1..5 and the draws of the call.
DemoCounts == {0, 1, MaxCount}

DemoDraws ==
    {[model |-> "gpt-3.5-turbo", prompt |-> 25, userId |-> "demo-user-1",
      profile |-> [ttft |-> 0, template |-> 0, pad |-> 0, token |-> 0, lag |-> 0]],
     [model |-> "gpt-4-turbo", prompt |-> 38, userId |-> "demo-user-5",
      profile |-> [ttft |-> 999, template |-> 999, pad |-> 999, token |-> 999,
                   lag |-> 7]]}

\* The handler takes count from the body (142) and calls generateDemoMetrics
\* (143); whatever else the body carries, includeErrors among it, is not read.
DemoStart(count, includeErrors) ==
    /\ demo.pc = "idle"
    /\ demo' = [NoDemo EXCEPT !.pc = "loop", !.count = count,
                              !.includeErrors = includeErrors]
    /\ UNCHANGED <<calls, registry, rows, now, ticks, answered400, lastRead, reads,
                   probe, http, proc, processor, consumer>>

\* One turn of the loop (178-184): i < count, the picks, and generateCompletion
\* is called and awaited.
DemoInvoke(d) ==
    /\ demo.pc = "loop"
    /\ demo.i < demo.count
    /\ StartCall("demo", d.prompt, d.model, d.userId, DefaultMaxTokens("chat"),
                 d.profile)
    /\ demo' = [demo EXCEPT !.pc = "await", !.call = Len(calls) + 1]
    /\ UNCHANGED <<rows, now, ticks, answered400, lastRead, reads, probe, http, proc, processor, consumer>>

\* The awaited call returned (184-188): its result is pushed and the pause of
\* 100 ms starts.
DemoCollect ==
    /\ demo.pc = "await"
    /\ calls[demo.call].pc = "returned"
    /\ demo' = [demo EXCEPT !.pc = "pause",
                            !.results = Append(@, calls[demo.call].result[1])]
    /\ UNCHANGED <<calls, registry, rows, now, ticks, answered400, lastRead, reads,
                   probe, http, proc, processor, consumer>>

\* DemoCaught with the rejection leaving the loop: the batch ends there
DemoCaughtStops ==
    /\ demo.pc = "await"
    /\ calls[demo.call].pc = "rejected"
    /\ demo' = [demo EXCEPT !.pc = "loop", !.i = demo.count]
    /\ UNCHANGED <<calls, registry, rows, now, ticks, answered400, lastRead, reads,
                   probe, http, proc, processor, consumer>>

\* The awaited call rejected (189-191): the catch logs, the loop goes on.
DemoCaught ==
    /\ demo.pc = "await"
    /\ calls[demo.call].pc = "rejected"
    /\ demo' = [demo EXCEPT !.pc = "loop", !.i = @ + 1]
    /\ UNCHANGED <<calls, registry, rows, now, ticks, answered400, lastRead, reads,
                   probe, http, proc, processor, consumer>>

\* The pause is over: i++ and the next turn.
DemoPauseDone ==
    /\ demo.pc = "pause"
    /\ demo' = [demo EXCEPT !.pc = "loop", !.i = @ + 1]
    /\ UNCHANGED <<calls, registry, rows, now, ticks, answered400, lastRead, reads,
                   probe, http, proc, processor, consumer>>

\* The loop is over (194) and the handler answers (144-147): the number of
\* results and results.slice(0, 5).
DemoRespond ==
    /\ demo.pc = "loop"
    /\ demo.i >= demo.count
    /\ demo' = [demo EXCEPT !.pc = "responded",
                            !.generated = Len(demo.results),
                            !.preview = SubSeq(demo.results, 1,
                                               Min(5, Len(demo.results)))]
    /\ UNCHANGED <<calls, registry, rows, now, ticks, answered400, lastRead, reads,
                   probe, http, proc, processor, consumer>>

RECURSIVE SaveFailures(_)
\* the store writes of the first n invocations that were rejected
SaveFailures(n) ==
    IF n = 0 THEN 0 ELSE calls[n].saveFailures + SaveFailures(n - 1)

NextDemo ==
    \/ \E count \in DemoCounts, includeErrors \in BOOLEAN :
            DemoStart(count, includeErrors)
    \/ \E d \in DemoDraws : DemoInvoke(d)
    \/ \E i \in 1..Len(calls) : FirstTokenWaitDone(i)
    \/ \E i \in 1..Len(calls) : GenWaitDone(i)
    \/ \E i \in 1..Len(calls) : SaveResolved(i)
    \/ /\ SaveFailures(Len(calls)) < MaxSaveFailures
       /\ \E i \in 1..Len(calls) : SaveRejected(i)
    \/ DemoCollect
    \/ DemoCaught
    \/ DemoPauseDone
    \/ DemoRespond

SpecDemo == Init /\ [][NextDemo]_vars

\* ------------------------------------------------- the helpers on their own
\* The arguments the helper functions are applied to.
ParseInputs == TimeRanges \cup {"", "1H"}
CostModels == PricedModels \cup InheritedNames \cup {"llama-2"}
InputTokenCounts == {0, 7, 100, 1000}
OutputTokenCounts == {0, 63, 200, 4000}
CompletionCounts == {0, 63, 200}
DurationsMs == {0, 100, 850, 900, 2060}
FirstTokenMs == {300, 800, 850}

\* probe: the function applied (fn), its string argument (name), its numeric
\* arguments (x, y, z) and its result (out)
ApplyParseTimeRange(timeRange) ==
    /\ probe' = [fn |-> "parseTimeRange", name |-> timeRange, x |-> 0, y |-> 0,
                 z |-> 0, out |-> parseTimeRange(timeRange)]
    /\ UNCHANGED <<calls, registry, rows, now, ticks, answered400, lastRead, reads,
                   demo, http, proc, processor, consumer>>

ApplyCalculateCost(model, inputTokens, outputTokens) ==
    /\ probe' = [fn |-> "calculateCost", name |-> model, x |-> inputTokens,
                 y |-> outputTokens, z |-> 0,
                 out |-> calculateCost(model, inputTokens, outputTokens)]
    /\ UNCHANGED <<calls, registry, rows, now, ticks, answered400, lastRead, reads,
                   demo, http, proc, processor, consumer>>

\* line 90 of generateCompletion, on a simulator's result that is a number
ApplyTokensPerSecond(completionTokens, totalDuration, timeToFirstToken) ==
    /\ probe' = [fn |-> "tokensPerSecond", name |-> AbsentField,
                 x |-> completionTokens, y |-> totalDuration, z |-> timeToFirstToken,
                 out |-> TokensPerSecond(completionTokens, totalDuration,
                                         timeToFirstToken)]
    /\ UNCHANGED <<calls, registry, rows, now, ticks, answered400, lastRead, reads,
                   demo, http, proc, processor, consumer>>

NextPure ==
    \/ \E t \in ParseInputs : ApplyParseTimeRange(t)
    \/ \E m \in CostModels, i \in InputTokenCounts, o \in OutputTokenCounts :
            ApplyCalculateCost(m, i, o)
    \/ \E c \in CompletionCounts, d \in DurationsMs, t \in FirstTokenMs :
            ApplyTokensPerSecond(c, d, t)

SpecPure == Init /\ [][NextPure]_vars

\* ------------------------------------------- the read handlers of the app
\* http: the read request the HTTP layer is serving (route, pc), how often its
\* handler called the store accessor (queries), the response sent (status,
\* body), how many read requests came in (gets) and how many of them were
\* answered 500 (failures).
MaxGets == 2

\* the query strings sent to the two read routes
QueryRanges == {AbsentField, "constructor"}
QueryGroupBys == {AbsentField, "day"}

\* GET /api/metrics/llm/summary, up to the await of the accessor: timeRange
\* defaults to '1h', model stays undefined when the query string has none.
GetSummary(timeRange, model, poolFails) ==
    /\ http.pc # "awaiting"
    /\ http.gets < MaxGets
    /\ lastRead' = getLLMMetricsSummary(rows, now, OrDefault(timeRange, "1h"),
                                        model, poolFails)
    /\ http' = [http EXCEPT !.pc = "awaiting", !.route = "summary",
                            !.queries = 1, !.status = 0, !.body = NoBody,
                            !.gets = @ + 1]
    /\ UNCHANGED <<calls, registry, rows, now, ticks, answered400, reads, demo,
                   probe, proc, processor, consumer>>

\* GET /api/metrics/llm/costs, up to the await of the accessor: timeRange
\* defaults to '24h', groupBy to 'hour'.
GetCosts(timeRange, groupBy, poolFails) ==
    /\ http.pc # "awaiting"
    /\ http.gets < MaxGets
    /\ lastRead' = getLLMCostBreakdown(rows, now, OrDefault(timeRange, "24h"),
                                       OrDefault(groupBy, "hour"), poolFails)
    /\ http' = [http EXCEPT !.pc = "awaiting", !.route = "costs",
                            !.queries = 1, !.status = 0, !.body = NoBody,
                            !.gets = @ + 1]
    /\ UNCHANGED <<calls, registry, rows, now, ticks, answered400, reads, demo,
                   probe, proc, processor, consumer>>

\* AnswerRead that answers a failed query with 200 and an empty result
AnswerReadSwallowing ==
    /\ http.pc = "awaiting"
    /\ http' = [http EXCEPT !.pc = "answered", !.status = 200,
                            !.body = [error |-> "none",
                                      summary |-> lastRead.value,
                                      costs |-> lastRead.entries],
                            !.failures = @ + (IF lastRead.failed THEN 1 ELSE 0)]
    /\ UNCHANGED <<calls, registry, rows, now, ticks, answered400, lastRead, reads,
                   demo, probe, proc, processor, consumer>>

\* The rest of either handler: res.json(result) when the accessor returned,
\* res.status(500).json({ error: 'Internal server error' }) when it threw.
AnswerRead ==
    /\ http.pc = "awaiting"
    /\ http' = IF lastRead.failed
               THEN [http EXCEPT !.pc = "answered", !.status = 500,
                                 !.body = [NoBody EXCEPT !.error = GenericError],
                                 !.failures = @ + 1]
               ELSE [http EXCEPT !.pc = "answered", !.status = 200,
                                 !.body = [error |-> "none",
                                           summary |-> lastRead.value,
                                           costs |-> lastRead.entries]]
    /\ UNCHANGED <<calls, registry, rows, now, ticks, answered400, lastRead, reads,
                   demo, probe, proc, processor, consumer>>

\* The read routes with the store behind them: rows are written, read
\* requests come in one after the other and are answered.  The store's clock
\* is at rest: all rows are within every window.
NextHttp ==
    \/ \E o \in SavedOutcomes : \E profile \in Profiles :
            profile.ttft = o[3] /\ SaveOutcome(o[1], o[2], profile)
    \/ \E t \in QueryRanges, m \in ReadModels, f \in BOOLEAN : GetSummary(t, m, f)
    \/ \E t \in QueryRanges, g \in QueryGroupBys, f \in BOOLEAN : GetCosts(t, g, f)
    \/ AnswerRead

SpecHttp == Init /\ [][NextHttp]_vars

\* ------------------------------------------------------ the process itself
\* proc: how far App.start has come (pc), what initialize() found of the
\* store (store), whether app.listen was called (listening), whether a
\* SIGTERM or SIGINT arrived (signalled) and the code of process.exit.
\* StartInitialize that logs a failed initialize() and goes on
StartInitializeLenient(reachable) ==
    /\ proc.pc = "created"
    /\ proc' = [proc EXCEPT !.pc = "initialized",
                            !.store = IF reachable THEN "reachable"
                                      ELSE "unreachable"]
    /\ UNCHANGED <<calls, registry, rows, now, ticks, answered400, lastRead, reads,
                   demo, probe, http, processor, consumer>>

\* App.start: await this.databaseService.initialize().  initialize() takes a
\* client of the pool, runs SELECT NOW() and releases it; when the store is
\* not reachable it rethrows, and the catch of start calls process.exit(1).
StartInitialize(reachable) ==
    /\ proc.pc = "created"
    /\ proc' = IF reachable
               THEN [proc EXCEPT !.pc = "initialized", !.store = "reachable"]
               ELSE [proc EXCEPT !.pc = "exited", !.store = "unreachable",
                                 !.exitCode = 1]
    /\ UNCHANGED <<calls, registry, rows, now, ticks, answered400, lastRead, reads,
                   demo, probe, http, processor, consumer>>

\* App.start: await this.rabbitMQConsumer.connect(); connect rethrows what
\* went wrong and the catch of start calls process.exit(1).
StartConnect(connected) ==
    /\ proc.pc = "initialized"
    /\ proc' = IF connected
               THEN [proc EXCEPT !.pc = "consuming"]
               ELSE [proc EXCEPT !.pc = "exited", !.exitCode = 1]
    /\ UNCHANGED <<calls, registry, rows, now, ticks, answered400, lastRead, reads,
                   demo, probe, http, processor, consumer>>

\* App.start: this.app.listen(port, ...)
StartListen ==
    /\ proc.pc = "consuming"
    /\ proc' = [proc EXCEPT !.pc = "listening", !.listening = TRUE]
    /\ UNCHANGED <<calls, registry, rows, now, ticks, answered400, lastRead, reads,
                   demo, probe, http, processor, consumer>>

\* SIGTERM or SIGINT: app.shutdown(), then process.exit(0)
Signal ==
    /\ proc.pc # "exited"
    /\ proc' = [proc EXCEPT !.pc = "exited", !.signalled = TRUE, !.exitCode = 0]
    /\ UNCHANGED <<calls, registry, rows, now, ticks, answered400, lastRead, reads,
                   demo, probe, http, processor, consumer>>

\* the server takes requests while the process listens
Serving == proc.pc = "listening"

\* the requests sent to the chat route once the server listens: without a
\* prompt, with the default model, with a model that is no string and with
\* a model that names an inherited property
BootRequests == {req \in Requests : req.via = "chat" /\ req.userId = AbsentField}
BootProfiles == {profile \in Profiles : profile.ttft = 0}

\* The process from its start: App.start, the signals, and, once the server
\* listens, the generation path and the summary route.
NextBoot ==
    \/ \E reachable \in BOOLEAN : StartInitialize(reachable)
    \/ \E connected \in BOOLEAN : StartConnect(connected)
    \/ StartListen
    \/ Signal
    \/ /\ Serving
       /\ \E req \in BootRequests, profile \in BootProfiles :
            HandleGenerate(req, profile)
    \/ /\ Serving
       /\ \E i \in 1..Len(calls) : FirstTokenWaitDone(i)
    \/ /\ Serving
       /\ \E i \in 1..Len(calls) : GenWaitDone(i)
    \/ /\ Serving
       /\ \E i \in 1..Len(calls) : SaveResolved(i)
    \/ /\ Serving
       /\ \E i \in 1..Len(calls) : SaveRejected(i)
    \/ /\ Serving
       /\ \E f \in BOOLEAN : GetSummary(AbsentField, AbsentField, f)
    \/ /\ Serving
       /\ AnswerRead

SpecBoot == Init /\ [][NextBoot]_vars

\* ------------------------------------------------ the MetricsBatchProcessor
\* processor: the fields of MetricsBatchProcessor (batchSize, metricsBuffer,
\* lastFlush, flushTimer), the clock Date.now() in seconds since the
\* construction, and what surrounds the object: the number of metrics handed
\* to addMetrics (added; a metric is named by its number of arrival), the
\* batches whose saveLLMMetricsBatch is awaited (pending, in order of start)
\* and the batches whose save resolved (saved).
MaxAdds == 3
MaxClock == 6

\* the batch sizes handed to the constructor
BatchSizes == {1, 2}
\* flushInterval, 5000 ms, in periods of the timer, 1000 ms
FlushIntervalTicks == 5

\* the constructor: lastFlush is Date.now(), the timer is started
Construct(batchSize) ==
    /\ processor.pc = "none"
    /\ processor' = [processor EXCEPT !.pc = "running", !.batchSize = batchSize,
                                      !.lastFlush = processor.clock,
                                      !.flushTimer = TRUE]
    /\ UNCHANGED <<calls, registry, rows, now, ticks, answered400, lastRead, reads,
                   demo, probe, http, proc, consumer>>

\* flushMetrics that leaves the buffer as it is when it takes the batch
flushMetricsKeeping(p) ==
    IF p.metricsBuffer = <<>> THEN p
    ELSE [p EXCEPT !.pending = Append(@, p.metricsBuffer),
                   !.lastFlush = p.clock]

\* flushMetrics up to its await: nothing on an empty buffer; otherwise the
\* buffer is copied into the batch and emptied, lastFlush is set and the save
\* of the batch is started.
flushMetrics(p) ==
    IF p.metricsBuffer = <<>> THEN p
    ELSE [p EXCEPT !.pending = Append(@, p.metricsBuffer),
                   !.metricsBuffer = <<>>,
                   !.lastFlush = p.clock]

\* addMetrics: push, then flush when the buffer has reached batchSize
addMetrics(p, metrics) ==
    LET pushed == [p EXCEPT !.metricsBuffer = Append(@, metrics)]
    IN  IF Len(pushed.metricsBuffer) >= p.batchSize
        THEN flushMetrics(pushed)
        ELSE pushed

AddMetrics ==
    /\ processor.pc # "none"
    /\ processor.added < MaxAdds
    /\ processor' = addMetrics([processor EXCEPT !.added = @ + 1],
                               processor.added + 1)
    /\ UNCHANGED <<calls, registry, rows, now, ticks, answered400, lastRead, reads,
                   demo, probe, http, proc, consumer>>

\* A second passes; while the timer runs its callback is called: it flushes
\* when flushInterval has passed since lastFlush and the buffer holds
\* something.
TimerTick ==
    /\ processor.pc # "none"
    /\ processor.clock < MaxClock
    /\ LET later == [processor EXCEPT !.clock = @ + 1]
       IN  processor' =
              IF /\ later.flushTimer
                 /\ later.clock - later.lastFlush >= FlushIntervalTicks
                 /\ Len(later.metricsBuffer) > 0
              THEN flushMetrics(later)
              ELSE later
    /\ UNCHANGED <<calls, registry, rows, now, ticks, answered400, lastRead, reads,
                   demo, probe, http, proc, consumer>>

\* seq without its k-th element
RemoveAt(seq, k) ==
    [j \in 1..(Len(seq) - 1) |-> IF j < k THEN seq[j] ELSE seq[j + 1]]

\* flushMetrics after its await, the save resolved: the batch is saved
FlushResolved(k) ==
    /\ k \in 1..Len(processor.pending)
    /\ processor' = [processor EXCEPT
                        !.pending = RemoveAt(@, k),
                        !.saved = Append(@, processor.pending[k])]
    /\ UNCHANGED <<calls, registry, rows, now, ticks, answered400, lastRead, reads,
                   demo, probe, http, proc, consumer>>

\* flushMetrics after its await, the save rejected: the catch puts the batch
\* in front of the buffer, this.metricsBuffer.unshift(...batch)
FlushRejected(k) ==
    /\ k \in 1..Len(processor.pending)
    /\ processor' = [processor EXCEPT
                        !.pending = RemoveAt(@, k),
                        !.metricsBuffer = processor.pending[k] \o @]
    /\ UNCHANGED <<calls, registry, rows, now, ticks, answered400, lastRead, reads,
                   demo, probe, http, proc, consumer>>

\* shutdown up to its await: the timer is cleared and what is left is flushed
Shutdown ==
    /\ processor.pc = "running"
    /\ processor' = flushMetrics([processor EXCEPT !.pc = "shutdown",
                                                   !.flushTimer = FALSE])
    /\ UNCHANGED <<calls, registry, rows, now, ticks, answered400, lastRead, reads,
                   demo, probe, http, proc, consumer>>

NextBatch ==
    \/ \E batchSize \in BatchSizes : Construct(batchSize)
    \/ AddMetrics
    \/ TimerTick
    \/ \E k \in 1..Len(processor.pending) : FlushResolved(k)
    \/ \E k \in 1..Len(processor.pending) : FlushRejected(k)
    \/ Shutdown

SpecBatch == Init /\ [][NextBatch]_vars

\* ------------------------------------------------- the RabbitMQ consumer
\* consumer: the messages the broker holds for twitter.nvidia (queue, by the
\* kind of their content), the deliveries handed to the consume callback, the
\* message of each row of metrics.twitter_metrics (table) and the number of
\* messages published.  A delivery carries the content's kind (body), where
\* its callback stands (pc), how often channel.ack and channel.nack were
\* called for it, the requeue flag of the nack, what became of the client of
\* the pool (client) and whether its INSERT was carried out (inserted).
MaxMsgs == 2
MaxDeliveries == 3

\* "valid": a message as the producer writes it.  "malformed": no JSON, so
\* JSON.parse throws.  "incomplete": JSON without id, so parseInt gives NaN
\* and the store rejects the INSERT.
Bodies == {"valid", "malformed", "incomplete"}

NewDelivery(body) ==
    [body |-> body, pc |-> "connecting", acks |-> 0, nacks |-> 0,
     requeue |-> FALSE, client |-> "none", inserted |-> FALSE]

\* this.channel.ack(msg)
ack(d) == [d EXCEPT !.acks = @ + 1, !.pc = "settled"]
\* this.channel.nack(msg, false, true)
nack(d) == [d EXCEPT !.nacks = @ + 1, !.requeue = TRUE, !.pc = "settled"]

\* the producer publishes a message that is routed to the queue
Publish(body) ==
    /\ consumer.published < MaxMsgs
    /\ consumer' = [consumer EXCEPT !.queue = Append(@, body),
                                    !.published = @ + 1]
    /\ UNCHANGED <<calls, registry, rows, now, ticks, answered400, lastRead, reads,
                   demo, probe, http, proc, processor>>

\* The broker delivers the head of the queue and the callback runs up to its
\* first await: JSON.parse throws on content that is no JSON, and the catch
\* nacks the message with requeue, which puts it back at the broker;
\* otherwise storeMessageInDatabase is entered and awaits a client.
Deliver ==
    /\ consumer.queue # <<>>
    /\ Len(consumer.deliveries) < MaxDeliveries
    /\ LET body == Head(consumer.queue)
       IN  consumer' =
              IF body = "malformed"
              THEN [consumer EXCEPT
                       !.deliveries = Append(@, nack(NewDelivery(body)))]
              ELSE [consumer EXCEPT
                       !.queue = Tail(@),
                       !.deliveries = Append(@, NewDelivery(body))]
    /\ UNCHANGED <<calls, registry, rows, now, ticks, answered400, lastRead, reads,
                   demo, probe, http, proc, processor>>

\* await this.dbPool.connect(): with a client the INSERT is sent; without
\* one connect rejects before the try of storeMessageInDatabase, and the
\* catch of the callback nacks the message with requeue.
Connected(i, granted) ==
    /\ i \in 1..Len(consumer.deliveries)
    /\ consumer.deliveries[i].pc = "connecting"
    /\ LET d == consumer.deliveries[i]
       IN  consumer' =
              IF granted
              THEN [consumer EXCEPT
                       !.deliveries[i] = [d EXCEPT !.pc = "inserting",
                                                   !.client = "held"]]
              ELSE [consumer EXCEPT
                       !.deliveries[i] = nack(d),
                       !.queue = <<d.body>> \o @]
    /\ UNCHANGED <<calls, registry, rows, now, ticks, answered400, lastRead, reads,
                   demo, probe, http, proc, processor>>

\* QueryDone that acknowledges the message before it looks at the outcome
QueryDoneAckFirst(i, stored) ==
    /\ i \in 1..Len(consumer.deliveries)
    /\ consumer.deliveries[i].pc = "inserting"
    /\ stored => consumer.deliveries[i].body = "valid"
    /\ LET d == [ack(consumer.deliveries[i]) EXCEPT !.client = "released"]
       IN  consumer' =
              IF stored
              THEN [consumer EXCEPT
                       !.deliveries[i] = [d EXCEPT !.inserted = TRUE],
                       !.table = Append(@, i)]
              ELSE [consumer EXCEPT
                       !.deliveries[i] = nack(d),
                       !.queue = <<d.body>> \o @]
    /\ UNCHANGED <<calls, registry, rows, now, ticks, answered400, lastRead, reads,
                   demo, probe, http, proc, processor>>

\* await client.query(query, values) is settled: the finally releases the
\* client; when the row was stored the callback acks the message, when the
\* store rejected the INSERT storeMessageInDatabase rethrows and the catch
\* of the callback nacks the message with requeue.  The store rejects every
\* INSERT of an incomplete message and may reject any other.
QueryDone(i, stored) ==
    /\ i \in 1..Len(consumer.deliveries)
    /\ consumer.deliveries[i].pc = "inserting"
    /\ stored => consumer.deliveries[i].body = "valid"
    /\ LET d == [consumer.deliveries[i] EXCEPT !.client = "released"]
       IN  consumer' =
              IF stored
              THEN [consumer EXCEPT
                       !.deliveries[i] = ack([d EXCEPT !.inserted = TRUE]),
                       !.table = Append(@, i)]
              ELSE [consumer EXCEPT
                       !.deliveries[i] = nack(d),
                       !.queue = <<d.body>> \o @]
    /\ UNCHANGED <<calls, registry, rows, now, ticks, answered400, lastRead, reads,
                   demo, probe, http, proc, processor>>

NextConsumer ==
    \/ \E body \in Bodies : Publish(body)
    \/ Deliver
    \/ \E i \in 1..Len(consumer.deliveries), granted \in BOOLEAN :
            Connected(i, granted)
    \/ \E i \in 1..Len(consumer.deliveries), stored \in BOOLEAN :
            QueryDone(i, stored)

SpecConsumer == Init /\ [][NextConsumer]_vars

\* ---------------------------------------------------------------- claims
Finished(c) == c.pc \in {"returned", "rejected"}

RowsOf(requestId) == {k \in 1..Len(rows) : rows[k].request_id = requestId}

RECURSIVE SumValues(_, _)
\* the sum of the values of counter f over the label tuples in keys
SumValues(f, keys) ==
    IF keys = {} THEN 0
    ELSE LET k == CHOOSE x \in keys : TRUE
         IN  f[k] + SumValues(f, keys \ {k})

RECURSIVE OutcomesRecorded(_)
\* how many outcomes the first n invocations have handed to recordMetrics
OutcomesRecorded(n) ==
    IF n = 0 THEN 0
    ELSE Len(calls[n].recorded) + Len(calls[n].aborted) + OutcomesRecorded(n - 1)

WellFormed(resp, c) ==
    LET m == LastRecorded(c)
    IN  /\ resp.status \in Outcomes
        /\ resp.status = m.status
        /\ resp.requestId = c.requestId
        /\ resp.model = c.model
        /\ resp.promptTokens = m.promptTokens
        /\ resp.completionTokens = m.completionTokens
        /\ resp.totalTokens = m.totalTokens
        /\ resp.timeToFirstToken = m.timeToFirstToken
        /\ resp.tokensPerSecond = m.tokensPerSecond
        /\ resp.totalDuration = m.totalDuration
        /\ resp.cost = m.costUsd
        /\ resp.errorMessage = m.errorMessage

\* C2 as stated: no invocation ever rejects; each one that ends returns a
\* well-formed outcome.
C2_NeverRejects ==
    \A i \in 1..Len(calls) :
        /\ calls[i].pc # "rejected"
        /\ calls[i].pc = "returned" =>
                /\ Len(calls[i].result) = 1
                /\ WellFormed(calls[i].result[1], calls[i])

\* C2 as amended: an invocation rejects only when the store write of its
\* error outcome has failed (no row of it exists then); every other invocation
\* that ends, also after a failure of the simulator or of the success
\* outcome's store write, returns a well-formed outcome.
C2_RejectsOnlyOnErrorSaveFailure ==
    \A i \in 1..Len(calls) :
        /\ calls[i].pc = "rejected" =>
                /\ calls[i].saveFailures >= 1
                /\ LastRecorded(calls[i]).status = "error"
                /\ \A k \in RowsOf(calls[i].requestId) : rows[k].status # "error"
                /\ calls[i].result = <<>>
        /\ calls[i].pc = "returned" =>
                /\ Len(calls[i].result) = 1
                /\ WellFormed(calls[i].result[1], calls[i])
        /\ (calls[i].model = NonString /\ calls[i].pc = "returned") =>
                calls[i].result[1].status = "error"

\* a simulator failure was turned into a returned error outcome, and another
\* invocation rejected
C2_Witness ==
    \E i, j \in 1..Len(calls) :
        /\ calls[i].pc = "returned"
        /\ calls[i].model = NonString
        /\ calls[i].result[1].status = "error"
        /\ calls[j].pc = "rejected"

\* every counter of the registry is at least what it was
NoCounterLowered ==
    /\ \A k \in DOMAIN registry.requestsTotal :
            k \in DOMAIN registry'.requestsTotal
            /\ registry'.requestsTotal[k] >= registry.requestsTotal[k]
    /\ \A k \in DOMAIN registry.costTotal :
            k \in DOMAIN registry'.costTotal
            /\ registry'.costTotal[k] >= registry.costTotal[k]

\* C3: an invocation in which a store write failed ends by rejecting, and no
\* step lowers or removes a counter of the registry.
C3_StoreFailurePropagates ==
    [][/\ NoCounterLowered
       /\ \A i \in 1..Len(calls') :
            (Finished(calls'[i]) /\ calls'[i].saveFailures > 0) =>
                calls'[i].pc = "rejected"]_vars

Gauge(reg, model) == Get(reg.activeRequests, <<model, ENDPOINT>>)

GaugeModels == PricedModels \cup InheritedNames \cup {"llama-2", NonString}

\* the change of the gauge of every label in this step
GaugeDelta(model) == Gauge(registry', model) - Gauge(registry, model)

Started(model) ==
    IF Len(calls') > Len(calls) /\ calls'[Len(calls')].model = model THEN 1 ELSE 0

Ended(model) ==
    Cardinality({i \in 1..Len(calls) :
        /\ calls[i].model = model
        /\ InFlight(calls[i])
        /\ Finished(calls'[i])})

\* C4: in every step the gauge of a label rises by one for the invocation
\* that starts with that label and falls by one for each invocation of that
\* label that ends, whatever its exit (return of a success, return of an
\* error, rejection); nothing else moves it.  So each invocation adds one at
\* its start and takes one away at its end.
C4_GaugeUpOnceDownOnce ==
    [][\A model \in GaugeModels :
            GaugeDelta(model) = Started(model) - Ended(model)]_vars

\* one invocation returned and one rejected, and the gauges are back at 0
C4_Witness ==
    /\ \E i, j \in 1..Len(calls) :
            /\ calls[i].pc = "rejected"
            /\ calls[j].pc = "returned"
            /\ calls[j].result[1].status = "error"
    /\ \A model \in GaugeModels : Gauge(registry, model) = 0

\* C5: no invocation attempts the store insert more than once.
C5_SaveAttemptedAtMostOnce ==
    \A i \in 1..Len(calls) : calls[i].saveAttempts <= 1

\* C6: a step that answers 400 changes neither the invocations, nor the
\* registry, nor the rows, and no invocation ever runs on a missing prompt.
C6_MissingPromptTouchesNothing ==
    [][/\ answered400' # answered400 =>
            /\ calls' = calls
            /\ registry' = registry
            /\ rows' = rows
       /\ \A i \in 1..Len(calls') : calls'[i].prompt # 0]_vars

\* a request was answered 400 while an invocation was in flight
C6_Witness ==
    /\ answered400 > 0
    /\ \E i \in 1..Len(calls) : InFlight(calls[i])

ErrorShape(cost, completionTokens, rate, message, absent) ==
    /\ cost = 0
    /\ completionTokens = 0
    /\ rate.n = 0
    /\ message # absent

\* C7: every error outcome, as recorded, as stored and as returned, has cost
\* 0, no completion tokens, throughput 0 and an error message; every success
\* outcome has no error message.
C7_ErrorOutcomeZeroed ==
    /\ \A i \in 1..Len(calls) : \A k \in 1..Len(calls[i].recorded) :
            LET m == calls[i].recorded[k]
            IN  IF m.status = "error"
                THEN ErrorShape(m.costUsd, m.completionTokens, m.tokensPerSecond,
                                m.errorMessage, NoMessage)
                ELSE m.errorMessage = NoMessage
    /\ \A i \in 1..Len(calls) : \A k \in 1..Len(calls[i].result) :
            LET r == calls[i].result[k]
            IN  IF r.status = "error"
                THEN ErrorShape(r.cost, r.completionTokens, r.tokensPerSecond,
                                r.errorMessage, NoMessage)
                ELSE r.errorMessage = NoMessage
    /\ \A k \in 1..Len(rows) :
            IF rows[k].status = "error"
            THEN ErrorShape(rows[k].cost_usd, rows[k].completion_tokens,
                            rows[k].tokens_per_second, rows[k].error_message, NullValue)
            ELSE rows[k].error_message = NullValue

\* an error outcome was stored and returned, and a success outcome too
C7_Witness ==
    /\ \E k \in 1..Len(rows) : rows[k].status = "error"
    /\ \E k \in 1..Len(rows) : rows[k].status = "success"
    /\ \E i \in 1..Len(calls) :
            calls[i].pc = "returned" /\ calls[i].result[1].status = "error"

Keys(f, g) == DOMAIN f \cup DOMAIN g

\* histogram h grew by exactly the observation v under key, and by nothing else
ObservedOnce(h, hNew, key, v) ==
    \A k \in Keys(h, hNew) \cup {key} :
        Observed(hNew, k) = IF k = key THEN Append(Observed(h, k), v)
                            ELSE Observed(h, k)

\* counter f grew by exactly v under key, and by nothing else
GrewBy(f, fNew, key, v) ==
    \A k \in Keys(f, fNew) \cup {key} :
        Get(fNew, k) = Get(f, k) + (IF k = key THEN v ELSE 0)

\* the step records one outcome of call i with the effect the claim states
RecordingEffect(i) ==
    LET m == LastRecorded(calls'[i])
        labels == <<m.model, m.endpoint>>
    IN  /\ Len(calls'[i].recorded) = Len(calls[i].recorded) + 1
        /\ GrewBy(registry.requestsTotal, registry'.requestsTotal,
                  <<m.model, m.status, m.userId, m.endpoint>>, 1)
        /\ m.status = "error" =>
                /\ registry'.responseTime = registry.responseTime
                /\ registry'.timeToFirstToken = registry.timeToFirstToken
                /\ registry'.tokensPerSecond = registry.tokensPerSecond
                /\ registry'.totalTokens = registry.totalTokens
                /\ registry'.costTotal = registry.costTotal
        /\ m.status = "success" =>
                /\ ObservedOnce(registry.responseTime, registry'.responseTime,
                                labels, m.totalDuration)
                /\ ObservedOnce(registry.timeToFirstToken,
                                registry'.timeToFirstToken,
                                labels, m.timeToFirstToken)
                /\ ObservedOnce(registry.tokensPerSecond,
                                registry'.tokensPerSecond,
                                labels, m.tokensPerSecond)
                /\ ObservedOnce(registry.totalTokens, registry'.totalTokens,
                                labels, m.totalTokens)
                /\ GrewBy(registry.costTotal, registry'.costTotal,
                          labels, m.costUsd)

\* C9: no recording of an outcome is cut short, and a step that records an
\* outcome raises the request counter of (model, status, userId, endpoint) by
\* exactly one and no other; for an error outcome the four distributions and
\* the cost counter stay as they are; for a success outcome each distribution
\* of (model, endpoint) gains exactly one observation, the outcome's value,
\* and the cost counter of (model, endpoint) gains exactly the outcome's
\* costUsd.
C9_RecordMetricsEffect ==
    [][\A i \in 1..Len(calls) :
        /\ calls'[i].aborted = calls[i].aborted
        /\ Len(calls'[i].recorded) > Len(calls[i].recorded) => RecordingEffect(i)]_vars

\* every recording that runs to its end has the effect the claim states
C9_CompletedRecordingEffect ==
    [][\A i \in 1..Len(calls) :
        (/\ calls'[i].aborted = calls[i].aborted
         /\ Len(calls'[i].recorded) > Len(calls[i].recorded)) => RecordingEffect(i)]_vars

IsZero(q) == q.n = 0

\* C10: a summary whose window holds no matching row, on a pool that runs the
\* query, returns normally with every field 0.
C10_EmptyWindowAllZero ==
    (/\ lastRead.kind = "summary"
     /\ lastRead.matched = 0
     /\ lastRead.cause \notin {"pool", "invalid interval"}) =>
        /\ ~lastRead.failed
        /\ lastRead.value.totalRequests = 0
        /\ IsZero(lastRead.value.successRate)
        /\ IsZero(lastRead.value.avgTimeToFirstToken)
        /\ IsZero(lastRead.value.avgTokensPerSecond)
        /\ IsZero(lastRead.value.avgTotalDuration)
        /\ IsZero(lastRead.value.totalCost)
        /\ IsZero(lastRead.value.avgTokensPerRequest)
        /\ lastRead.value.errorCount = 0

\* the interval of a range token as the claims give it, in hours: the six
\* tokens of the table, and one hour for every other text
ClaimedHours(timeRange) ==
    CASE timeRange = "1h" -> 1
      [] timeRange = "6h" -> 6
      [] timeRange = "12h" -> 12
      [] timeRange = "24h" -> 24
      [] timeRange = "7d" -> 168
      [] timeRange = "30d" -> 720
      [] OTHER -> 1

\* the rows that were in the table when the read r ran and that lie in its
\* time range (and are of its model, when it names one)
Considered(r) ==
    {k \in 1..r.rows :
        /\ rows[k].time >= r.at - ClaimedHours(r.timeRange)
        /\ (r.model # AbsentField => rows[k].model = r.model)}

Successes(ks) == {k \in ks : rows[k].status = "success"}

RECURSIVE Total(_, _)
\* the sum of column col over the rows of the table with index in ks
Total(ks, col) ==
    IF ks = {} THEN Rat(0)
    ELSE LET k == CHOOSE x \in ks : TRUE
         IN  RatAdd(Column(rows[k], col), Total(ks \ {k}, col))

\* q is the mean of column col over the rows ks, and 0 over no row
IsMean(q, ks, col) ==
    IF ks = {} THEN q.n = 0
    ELSE Norm(q) = Norm([n |-> Total(ks, col).n,
                         d |-> Total(ks, col).d * Cardinality(ks)])

\* the summary v is the one the claim describes for the read r
SummaryAsClaimed(r, v) ==
    LET ks == Considered(r)
        ok == Successes(ks)
    IN  /\ v.totalRequests = Cardinality(ks)
        /\ v.successRate.n * Cardinality(ks) = v.successRate.d * Cardinality(ok)
        /\ IsMean(v.avgTimeToFirstToken, ok, "time_to_first_token")
        /\ IsMean(v.avgTokensPerSecond, ok, "tokens_per_second")
        /\ IsMean(v.avgTotalDuration, ok, "total_duration")
        /\ IsMean(v.avgTokensPerRequest, ok, "total_tokens")
        /\ Norm(v.totalCost) = Total(ok, "cost_usd")
        /\ v.errorCount = Cardinality(ks \ ok)

\* C11: every summary query that the pool runs returns, whatever rows the
\* table holds, and what it returns is computed from exactly the rows in the
\* time range (of the model asked for): their number, the share of successes,
\* the means of the four columns over the successful rows (0 over none), the
\* sum of the cost of the successful rows and the number of error rows.
C11_SummaryOverWindow ==
    (lastRead.kind = "summary" /\ lastRead.cause # "pool") =>
        /\ ~lastRead.failed
        /\ SummaryAsClaimed(lastRead, lastRead.value)

\* every summary that was returned is the one the claim describes
C11_ReturnedSummaryAsClaimed ==
    (lastRead.kind = "summary" /\ ~lastRead.failed) =>
        SummaryAsClaimed(lastRead, lastRead.value)

\* the interval literal of a range token as the claim gives it
ClaimedInterval(timeRange) ==
    CASE timeRange = "1h" -> "1 hour"
      [] timeRange = "6h" -> "6 hours"
      [] timeRange = "12h" -> "12 hours"
      [] timeRange = "24h" -> "1 day"
      [] timeRange = "7d" -> "7 days"
      [] timeRange = "30d" -> "30 days"
      [] OTHER -> "1 hour"

\* C12: parseTimeRange maps the six tokens to their intervals and every other
\* text to '1 hour'; its result is always one of the six interval literals.
C12_TimeRangeTranslation ==
    probe.fn = "parseTimeRange" =>
        /\ probe.out = ClaimedInterval(probe.name)
        /\ probe.out \in {"1 hour", "6 hours", "12 hours", "1 day", "7 days", "30 days"}

ClaimedBucket(groupBy, time) == IF groupBy = "hour" THEN time ELSE time - (time % 24)

\* the successful rows in the time range of the cost read r that fall into
\* the bucket and model of the entry e
EntryRows(r, e) ==
    {k \in Successes(Considered(r)) :
        /\ ClaimedBucket(r.groupBy, rows[k].time) = e.timestamp
        /\ rows[k].model = e.model}

\* the entries es are the ones the claim describes for the cost read r
CostsAsClaimed(r, es) ==
    /\ \A k \in Successes(Considered(r)) :
            \E j \in 1..Len(es) : k \in EntryRows(r, es[j])
    /\ \A j \in 1..Len(es) :
            /\ EntryRows(r, es[j]) # {}
            /\ es[j].requestCount = Cardinality(EntryRows(r, es[j]))
            /\ Norm(es[j].totalCost) = Total(EntryRows(r, es[j]), "cost_usd")
            /\ es[j].avgCostPerRequest.n * es[j].requestCount
                    = es[j].avgCostPerRequest.d * Total(EntryRows(r, es[j]), "cost_usd").n
    /\ \A i, j \in 1..Len(es) :
            i < j =>
                \/ es[i].timestamp > es[j].timestamp
                \/ /\ es[i].timestamp = es[j].timestamp
                   /\ ModelRank(es[i].model) < ModelRank(es[j].model)

\* C13: every cost query that the pool runs returns one entry per (bucket,
\* model) with a successful row in the time range and no other entry, each
\* with the sum, the number (at least 1) and the mean of the cost of its rows,
\* the entries ordered by bucket, newest first, then by model name.
C13_CostBreakdown ==
    (lastRead.kind = "costs" /\ lastRead.cause # "pool") =>
        /\ ~lastRead.failed
        /\ CostsAsClaimed(lastRead, lastRead.entries)

\* every cost breakdown that was returned is the one the claim describes
C13_ReturnedCostsAsClaimed ==
    (lastRead.kind = "costs" /\ ~lastRead.failed) =>
        CostsAsClaimed(lastRead, lastRead.entries)

\* in this step a summary query is answered that asks what the summary held
\* before it asked, with no row written in between and the pool running both
SameQuestion ==
    /\ lastRead.kind = "summary"
    /\ lastRead'.kind = "summary"
    /\ lastRead'.timeRange = lastRead.timeRange
    /\ lastRead'.model = lastRead.model
    /\ lastRead'.rows = lastRead.rows
    /\ lastRead.cause # "pool"
    /\ lastRead'.cause # "pool"

\* a step that answers a read changes neither the table nor the registry
ReadOnly == lastRead' # lastRead => (rows' = rows /\ registry' = registry)

C16_ThroughputDivisor ==
    probe.fn = "tokensPerSecond" =>
        LET gap == probe.y - probe.z
        IN  /\ probe.out.n = probe.x * 1000
            /\ probe.out.d = (IF gap >= 100 THEN gap ELSE 100)
            /\ probe.out.d >= 100
            /\ probe.out.n * 100 <= probe.x * 1000 * probe.out.d

\* the throughput of a response of some tokens whose total duration is not
\* above its time to first token
C16_Witness ==
    /\ probe.fn = "tokensPerSecond"
    /\ probe.x > 0
    /\ probe.y <= probe.z
    /\ probe.out.d = 100

\* the prices of the pricing table per 1000 tokens, in 1e-5 USD
InputRatePer1K(model) ==
    CASE model = "gpt-3.5-turbo" -> 150
      [] model = "gpt-4" -> 3000
      [] model = "gpt-4-turbo" -> 1000
      [] model = "gpt-4o" -> 500

OutputRatePer1K(model) ==
    CASE model = "gpt-3.5-turbo" -> 200
      [] model = "gpt-4" -> 6000
      [] model = "gpt-4-turbo" -> 3000
      [] model = "gpt-4o" -> 1500

\* C17: for a model of the pricing table the cost is promptTokens / 1000
\* times the model's input price plus completionTokens / 1000 times its
\* output price; 100 prompt and 200 completion tokens of gpt-3.5-turbo
\* (0.0015 and 0.002 per 1K) cost 0.00055.  Token counts times prices per 1K
\* are in 1e-8 USD, ten times the unit of the cost.
C17_CostFormula ==
    (probe.fn = "calculateCost" /\ probe.name \in PricedModels) =>
        /\ probe.out * 10 = probe.x * InputRatePer1K(probe.name)
                              + probe.y * OutputRatePer1K(probe.name)
        /\ (probe.name = "gpt-3.5-turbo" /\ probe.x = 100 /\ probe.y = 200) =>
                probe.out = 5500

\* the cost of 100 prompt and 200 completion tokens of gpt-3.5-turbo
C17_Witness ==
    /\ probe.fn = "calculateCost"
    /\ probe.name = "gpt-3.5-turbo"
    /\ probe.x = 100
    /\ probe.y = 200
    /\ probe.out = 5500

\* C15: however the invocations of generateCompletion interleave, no two of
\* them have the same requestId and no two rows of the table have the same
\* request_id.
C15_DistinctRequestIds ==
    /\ \A i, j \in 1..Len(calls) :
            i # j => calls[i].requestId # calls[j].requestId
    /\ \A k, l \in 1..Len(rows) :
            k # l => rows[k].request_id # rows[l].request_id

\* two invocations overlapped and both wrote their row: the one started
\* second wrote first
C15_Witness ==
    /\ Len(rows) = 2
    /\ \E i, j \in 1..Len(calls) :
            /\ i < j
            /\ rows[1].request_id = calls[j].requestId
            /\ rows[2].request_id = calls[i].requestId

\* the model of call c is a name that the pricing table does not hold
Unpriced(c) == c.model # NonString /\ c.model \notin PricedModels

\* C18: for a model name outside the pricing table the cost computation does
\* not fail and gives the default cost, 0.001, and the request completes as a
\* success outcome that is recorded in the registry and, the store permitting,
\* written to the table.
C18_UnknownModelDefaultCost ==
    \A i \in 1..Len(calls) :
        LET c == calls[i]
        IN  Unpriced(c) =>
                /\ c.aborted = <<>>
                /\ \A k \in 1..Len(c.recorded) :
                        c.recorded[k].status = "success" =>
                            c.recorded[k].costUsd = DefaultCost
                /\ (c.pc = "returned" /\ c.saveFailures = 0) =>
                        /\ c.result[1].status = "success"
                        /\ Len(c.recorded) = 1
                        /\ Get(registry.requestsTotal,
                               <<c.model, "success", c.userId, ENDPOINT>>) >= 1
                        /\ \E k \in RowsOf(c.requestId) :
                                /\ rows[k].status = "success"
                                /\ rows[k].cost_usd = DefaultCost

\* C18 for the names that no object literal inherits
C18_PlainUnknownModelDefaultCost ==
    \A i \in 1..Len(calls) :
        LET c == calls[i]
        IN  (Unpriced(c) /\ c.model \notin InheritedNames) =>
                /\ c.aborted = <<>>
                /\ \A k \in 1..Len(c.recorded) :
                        c.recorded[k].status = "success" =>
                            c.recorded[k].costUsd = DefaultCost
                /\ (c.pc = "returned" /\ c.saveFailures = 0) =>
                        /\ c.result[1].status = "success"
                        /\ \E k \in RowsOf(c.requestId) :
                                /\ rows[k].status = "success"
                                /\ rows[k].cost_usd = DefaultCost

\* the invocations of generateCompletion that the demo batch made
DemoCalls == {i \in 1..Len(calls) : calls[i].via = "demo"}

\* C19: a demo batch run with includeErrors injects generation errors, each
\* recorded as an error outcome in registry and table, so that it produces
\* entries of status error with no store write failing: the largest batch, run
\* with includeErrors and without a failed store write, holds such an entry.
C19_DemoInjectsErrors ==
    (/\ demo.pc = "responded"
     /\ demo.includeErrors
     /\ demo.count = MaxCount
     /\ SaveFailures(Len(calls)) = 0) =>
        \E k \in 1..Len(demo.results) :
            /\ demo.results[k].status = "error"
            /\ \E j \in 1..Len(rows) :
                    /\ rows[j].request_id = demo.results[k].requestId
                    /\ rows[j].status = "error"

\* whatever the body carries, an invocation of a demo batch builds an error
\* outcome only after a store write of its own has failed
C19_NoErrorWithoutStoreFailure ==
    \A i \in DemoCalls :
        (\E k \in 1..Len(calls[i].recorded) : calls[i].recorded[k].status = "error")
            => calls[i].saveFailures >= 1

\* C20: a demo batch of count requests calls generateCompletion count times,
\* one after the other: a call starts only when the calls before it are over,
\* so at most one is in flight; a call that rejects does not end the batch;
\* the response carries the number of results collected, which are the results
\* of the calls that returned, in order, and the first 5 of them at most.
C20_SequentialBatch ==
    /\ Cardinality({i \in DemoCalls : InFlight(calls[i])}) <= 1
    /\ \A i, j \in DemoCalls : i < j => Finished(calls[i])
    /\ Cardinality(DemoCalls) <= demo.count
    /\ demo.pc = "responded" =>
            /\ Cardinality(DemoCalls) = demo.count
            /\ \A i \in DemoCalls : Finished(calls[i])
            /\ demo.generated = Cardinality({i \in DemoCalls : calls[i].pc = "returned"})
            /\ demo.generated = Len(demo.results)
            /\ \A k, l \in 1..Len(demo.results) :
                    k < l => demo.results[k].requestId < demo.results[l].requestId
            /\ \A k \in 1..Len(demo.results) :
                    \E i \in DemoCalls :
                        /\ calls[i].pc = "returned"
                        /\ demo.results[k] = calls[i].result[1]
            /\ Len(demo.preview) = Min(5, Len(demo.results))
            /\ \A k \in 1..Len(demo.preview) : demo.preview[k] = demo.results[k]

\* a batch of the largest count answered: one of its calls rejected, calls
\* made after that one returned, and more than 5 results were collected
C20_Witness ==
    /\ demo.pc = "responded"
    /\ demo.count = MaxCount
    /\ Len(demo.results) > 5
    /\ Len(demo.preview) = 5
    /\ \E i, j \in DemoCalls :
            /\ i < j
            /\ calls[i].pc = "rejected"
            /\ calls[j].pc = "returned"

\* the outcome m, the rows of call c and the response of call c carry the
\* same status and the same cost
SharedOutcome(c, m) ==
    /\ c.result[1].status = m.status
    /\ c.result[1].cost = m.costUsd
    /\ \A k \in RowsOf(c.requestId) :
            /\ rows[k].status = m.status
            /\ rows[k].cost_usd = m.costUsd

\* C22: an invocation builds one outcome and no second one: the outcome handed
\* to the registry, the one written to the table and the one returned are the
\* same value, with the same status and the same cost.
C22_OneOutcomePerRequest ==
    \A i \in 1..Len(calls) :
        LET c == calls[i]
        IN  /\ Len(c.recorded) + Len(c.aborted) <= 1
            /\ c.pc = "returned" => SharedOutcome(c, c.recorded[1])

\* an invocation in which no store write failed and no recording threw has
\* built one outcome, shared by registry, table and response; in every
\* invocation that returned, the last outcome built is the one in the table
\* and in the response
C22_OneOutcomeUnlessFailure ==
    \A i \in 1..Len(calls) :
        LET c == calls[i]
        IN  /\ (c.saveFailures = 0 /\ c.aborted = <<>>) => Len(c.recorded) <= 1
            /\ c.pc = "returned" => SharedOutcome(c, LastRecorded(c))

\* the simulator ran to its end in call c, and c built an error outcome only
\* after a write to the registry or to the table had failed
SimulatorCompletes(c) ==
    /\ Finished(c) => c.simulated
    /\ (\E k \in 1..Len(c.recorded) : c.recorded[k].status = "error") =>
            (c.saveFailures >= 1 \/ c.aborted # <<>>)
    /\ (c.pc = "returned" /\ c.saveFailures = 0 /\ c.aborted = <<>>) =>
            c.result[1].status = "success"

\* C23: the simulator has no error path: whatever the prompt, the model and
\* maxTokens, it completes and returns a response and a timeToFirstToken, so
\* that an invocation in which no write to the registry or to the table fails
\* returns status success.
C23_SimulatorNeverFails ==
    \A i \in 1..Len(calls) : SimulatorCompletes(calls[i])

\* C23 for the models that are strings
C23_SimulatorNeverFailsOnStrings ==
    \A i \in 1..Len(calls) :
        calls[i].model # NonString => SimulatorCompletes(calls[i])

\* the outcomes call c has built, those whose recording threw included
Built(c) == c.aborted \o c.recorded

\* outcome m of call c was built when the simulated wait for the first token
\* was over
AfterFirstToken(c, m) == m.totalDuration >= TimerDelay(c.ttft)

\* C24: an outcome has timeToFirstToken 0 only if it is an error outcome built
\* before the simulated wait for the first token was over; every success
\* outcome, and every outcome built after that wait, has the simulated
\* timeToFirstToken, which is above 0.
C24_ZeroOnlyBeforeLatency ==
    \A i \in 1..Len(calls) : \A k \in 1..Len(Built(calls[i])) :
        LET c == calls[i]
            m == Built(c)[k]
        IN  /\ m.timeToFirstToken = 0 =>
                    (m.status = "error" /\ ~AfterFirstToken(c, m))
            /\ (m.status = "success" \/ AfterFirstToken(c, m)) =>
                    (m.timeToFirstToken = c.ttft /\ m.timeToFirstToken > 0)

\* every error outcome has timeToFirstToken 0 and is built after the wait for
\* the first token; every success outcome has the simulated timeToFirstToken,
\* above 0 when the model's name is not an inherited one
C24_ZeroIffError ==
    \A i \in 1..Len(calls) : \A k \in 1..Len(Built(calls[i])) :
        LET c == calls[i]
            m == Built(c)[k]
        IN  /\ m.status = "error" =>
                    (m.timeToFirstToken = 0 /\ AfterFirstToken(c, m))
            /\ m.status = "success" =>
                    /\ m.timeToFirstToken = c.ttft
                    /\ c.model \notin InheritedNames => m.timeToFirstToken > 0

\* the invocations with label model that have started and not ended
Active(model) == {i \in 1..Len(calls) : calls[i].model = model /\ InFlight(calls[i])}

\* C26: however the invocations interleave, the gauge of (model, endpoint) is
\* the number of invocations of that label that have started and not ended;
\* no gauge is negative, and all are 0 when no invocation is in flight.
C26_GaugeCountsInFlight ==
    /\ \A model \in GaugeModels : Gauge(registry, model) = Cardinality(Active(model))
    /\ \A key \in DOMAIN registry.activeRequests :
            /\ registry.activeRequests[key] >= 0
            /\ key[1] \in GaugeModels /\ key[2] = ENDPOINT
    /\ (\A i \in 1..Len(calls) : ~InFlight(calls[i])) =>
            \A key \in DOMAIN registry.activeRequests :
                registry.activeRequests[key] = 0

\* two invocations of one model are in flight at once
C26_Witness ==
    \E model \in GaugeModels :
        /\ Cardinality(Active(model)) = 2
        /\ Gauge(registry, model) = 2

Quiescent == \A i \in 1..Len(calls) : ~InFlight(calls[i])

\* the total of the request counter over the labels of status success
SuccessCounter ==
    SumValues(registry.requestsTotal,
              {key \in DOMAIN registry.requestsTotal : key[2] = "success"})

CostCounter == SumValues(registry.costTotal, DOMAIN registry.costTotal)

SuccessRows == Cardinality({k \in 1..Len(rows) : rows[k].status = "success"})

RECURSIVE SumCostUsd(_)
\* the sum of cost_usd over the first n rows
SumCostUsd(n) == IF n = 0 THEN 0 ELSE rows[n].cost_usd + SumCostUsd(n - 1)

\* call c has no row of status success
NoSuccessRow(c) == \A k \in RowsOf(c.requestId) : rows[k].status # "success"

\* call c was counted as a success by the registry and has no success row:
\* the write of its success outcome failed, or its recording threw
CountedNotStored(c) ==
    /\ NoSuccessRow(c)
    /\ \E k \in 1..Len(Built(c)) : Built(c)[k].status = "success"

RECURSIVE CountedNotStoredUpTo(_)
CountedNotStoredUpTo(n) ==
    IF n = 0 THEN 0
    ELSE (IF CountedNotStored(calls[n]) THEN 1 ELSE 0) + CountedNotStoredUpTo(n - 1)

RECURSIVE CostNotStoredUpTo(_)
\* the cost that the cost counter holds for success outcomes without a row:
\* those whose recording ran to its end and whose write failed
CostNotStoredUpTo(n) ==
    IF n = 0 THEN 0
    ELSE (IF /\ NoSuccessRow(calls[n])
             /\ calls[n].recorded # <<>>
             /\ calls[n].recorded[1].status = "success"
          THEN calls[n].recorded[1].costUsd ELSE 0) + CostNotStoredUpTo(n - 1)

\* C30 as stated: with no invocation in flight, the rows of status success
\* are as many as the request counter counts under status success, and the
\* cost counter's total is the sum of cost_usd over the rows, store failures
\* or not.  Stated here for the executions in which no recording throws.
C30_RegistryMatchesStore ==
    (Quiescent /\ \A i \in 1..Len(calls) : calls[i].aborted = <<>>) =>
        /\ SuccessRows = SuccessCounter
        /\ CostCounter = SumCostUsd(Len(rows))

\* C30 as amended: with no invocation in flight, the request counter under
\* status success counts the success rows and, one each, the invocations
\* whose success outcome was counted but not stored (its write failed or its
\* recording threw); the cost counter's total is the sum of cost_usd over the
\* rows plus the cost of the success outcomes recorded in full whose write
\* failed.  Where no write fails and no recording throws the two agree.
C30_RegistryMatchesStoreUpToFailures ==
    Quiescent =>
        /\ SuccessCounter = SuccessRows + CountedNotStoredUpTo(Len(calls))
        /\ CostCounter = SumCostUsd(Len(rows)) + CostNotStoredUpTo(Len(calls))
        /\ (\A i \in 1..Len(calls) :
                calls[i].saveFailures = 0 /\ calls[i].aborted = <<>>) =>
                    /\ SuccessRows = SuccessCounter
                    /\ CostCounter = SumCostUsd(Len(rows))

\* no invocation is in flight; one stored its success outcome, another
\* returned an error outcome after the write of its success outcome failed
C30_Witness ==
    /\ Quiescent
    /\ SuccessRows = 1
    /\ SuccessCounter = 2
    /\ \E i \in 1..Len(calls) :
            /\ calls[i].pc = "returned"
            /\ calls[i].saveFailures = 1
            /\ calls[i].recorded[1].costUsd > 0

\* the store and the registry, and the invocations, are as they were
SinksUntouched == UNCHANGED <<rows, registry, calls>>

\* the answer a read handler gives to the outcome r of its query when all is
\* well: the result itself with status 200
AnswerOf(r) == [error |-> "none", summary |-> r.value, costs |-> r.entries]

\* C21: a read query that fails (summarize or costBreakdown) hands its caller
\* an error and no result, is called once per request (no retry), and the
\* HTTP layer answers the request with status 500 and the generic body; the
\* failing query and its answer change neither the rows of the store nor the
\* registry; a later request is answered from the rows alone, however many
\* requests failed before it.
C21_ReadFailureSurfaced ==
    [][/\ (http'.gets = http.gets + 1) =>
            /\ http'.queries = 1
            /\ SinksUntouched
            /\ lastRead'.failed =>
                    lastRead'.value = NoSummary /\ lastRead'.entries = <<>>
            /\ (http'.route = "summary" /\ ~lastRead'.failed) =>
                    lastRead'.value =
                        getLLMMetricsSummary(rows, now, lastRead'.timeRange,
                                             lastRead'.model, FALSE).value
       /\ (http.pc = "awaiting" /\ http'.pc = "answered") =>
            /\ http'.queries = 1
            /\ SinksUntouched
            /\ lastRead.failed =>
                    /\ http'.status = 500
                    /\ http'.body = [NoBody EXCEPT !.error = GenericError]
            /\ ~lastRead.failed =>
                    /\ http'.status = 200
                    /\ http'.body = AnswerOf(lastRead)]_vars

\* a read request is answered 200 with a summary over rows after an earlier
\* read request was answered 500
C21_Witness ==
    /\ http.pc = "answered"
    /\ http.failures >= 1
    /\ http.status = 200
    /\ http.route = "summary"
    /\ http.body.summary.totalRequests > 0

\* a step on which something of a generation request, a store write or a
\* read query happens, failures included
ServingStep == calls' # calls \/ rows' # rows \/ lastRead' # lastRead \/ http' # http

\* C25: only startup failures are fatal.  The server listens only after the
\* store's initialization succeeded; a store that is unreachable at boot
\* ends the process with exit code 1 and the server never listens; once the
\* server listens, no step of a generation request, of a store write or of a
\* read query, failing or not, ends the process: the process then ends on a
\* signal only, with exit code 0.
C25_OnlyStartupFailuresFatal ==
    [][/\ proc'.listening => proc'.store = "reachable"
       /\ proc'.store = "unreachable" =>
            /\ proc'.pc = "exited"
            /\ proc'.exitCode = 1
            /\ ~proc'.listening
       /\ ServingStep => proc' = proc
       /\ (proc.listening /\ proc'.pc = "exited" /\ proc.pc # "exited") =>
            proc'.signalled /\ proc'.exitCode = 0]_vars

\* the server listens after a generation request ended in an error outcome
\* because its store write failed, and after a read request was answered 500
C25_Witness ==
    /\ proc.pc = "listening"
    /\ http.pc = "answered" /\ http.status = 500
    /\ \E i \in 1..Len(calls) :
            calls[i].pc = "returned" /\ calls[i].saveFailures >= 1

\* how often metric m occurs in the sequence seq
Occurrences(seq, m) == Cardinality({j \in 1..Len(seq) : seq[j] = m})

RECURSIVE Flatten(_)
\* the batches of a sequence of batches, one after the other
Flatten(batches) ==
    IF batches = <<>> THEN <<>>
    ELSE Head(batches) \o Flatten(Tail(batches))

\* every metric added so far is in exactly one place, the buffer, a batch in
\* flight or a saved batch, and nothing else is in any of them
PlacedExactlyOnce(p) ==
    LET everywhere ==
            p.metricsBuffer \o Flatten(p.pending) \o Flatten(p.saved)
    IN  /\ Len(everywhere) = p.added
        /\ \A m \in 1..p.added : Occurrences(everywhere, m) = 1

\* a step on which the save of a batch fails: a batch leaves the batches in
\* flight and no batch is saved
SaveFails(k) ==
    /\ k \in 1..Len(processor.pending)
    /\ processor'.pending = RemoveAt(processor.pending, k)
    /\ processor'.saved = processor.saved

\* C27: the MetricsBatchProcessor loses and duplicates nothing.  After any
\* sequence of addMetrics, timer ticks, flushes that succeed or fail and
\* shutdown, every metric ever added is in exactly one place: in the buffer,
\* in a batch whose save is in flight, or in one batch that was saved; and a
\* batch whose save fails is in the buffer in full afterwards.
C27_NothingLostOrDuplicated ==
    [][/\ PlacedExactlyOnce(processor')
       /\ \A k \in 1..Len(processor.pending) :
            SaveFails(k) =>
                \A j \in 1..Len(processor.pending[k]) :
                    Occurrences(processor'.metricsBuffer,
                                processor.pending[k][j]) = 1]_vars

\* after shutdown: one batch was saved, the save of another failed and its
\* metrics are back in the buffer, a third metric is in flight
C27_Witness ==
    /\ processor.pc = "shutdown"
    /\ processor.batchSize = 1
    /\ processor.added = MaxAdds
    /\ Len(processor.saved) >= 1
    /\ Len(processor.metricsBuffer) >= 1
    /\ Len(processor.pending) >= 1

\* C28 as stated: the metrics in the buffer are always in the order in which
\* they were added (a metric is named by its number of arrival).
C28_BufferInArrivalOrder ==
    \A i, j \in 1..Len(processor.metricsBuffer) :
        i < j => processor.metricsBuffer[i] < processor.metricsBuffer[j]

\* the rows of the table that the delivery i stored
StoredBy(i) == {k \in 1..Len(consumer.table) : consumer.table[k] = i}

\* C29: the consumer settles every delivered message exactly once.  A
\* delivery is never both acked and nacked and never settled twice; a
\* delivery whose callback has ended is acked or nacked; it is acked only
\* when its row was inserted, and nacked with requeue, leaving no row, when
\* parsing, the client's acquisition or the insert failed; the client taken
\* for the insert is released whichever way the callback ends.
C29_SettledExactlyOnce ==
    \A i \in 1..Len(consumer.deliveries) :
        LET d == consumer.deliveries[i]
        IN  /\ d.acks + d.nacks <= 1
            /\ d.pc = "settled" <=> d.acks + d.nacks = 1
            /\ d.acks = 1 =>
                    /\ d.inserted
                    /\ Cardinality(StoredBy(i)) = 1
                    /\ d.client = "released"
            /\ d.nacks = 1 =>
                    /\ d.requeue
                    /\ ~d.inserted
                    /\ StoredBy(i) = {}
                    /\ d.client # "held"
            /\ d.acks + d.nacks = 0 => StoredBy(i) = {}

\* a message whose insert failed was nacked, delivered again and acked after
\* its row was stored, and a message that is no JSON was nacked
C29_Witness ==
    \E i, j, k \in 1..Len(consumer.deliveries) :
        /\ i < j
        /\ consumer.deliveries[i].body = "valid"
        /\ consumer.deliveries[i].nacks = 1
        /\ consumer.deliveries[i].client = "released"
        /\ consumer.deliveries[j].body = "valid"
        /\ consumer.deliveries[j].acks = 1
        /\ consumer.deliveries[k].body = "malformed"
        /\ consumer.deliveries[k].nacks = 1
        /\ consumer.published = MaxMsgs

====
